---- MODULE Spec2Model ----
(***************************************************************************)
(* Model of server-app/main.py: the matchmaking ticket state machine with  *)
(* atomic pairing and the turn-enforced move ledger, run by concurrent     *)
(* request handlers against one Postgres database (READ COMMITTED).        *)
(*                                                                         *)
(* Every handler runs inside `with connect_postgres() as connection,       *)
(* connection.transaction()`: its statements are the steps of a process,   *)
(* its writes stay in the process's write set (tw, mw, gw, vw) until the   *)
(* Commit step publishes them, and an HTTPException rolls them back.  A    *)
(* statement that needs a row lock held by another transaction is not      *)
(* enabled until that transaction ends; FOR UPDATE SKIP LOCKED never waits.*)
(* NOW() is the transaction's start time (txNow); utcnow() is the clock.   *)
(***************************************************************************)
EXTENDS Integers, Sequences, FiniteSets, TLC

\* ---------------------------------------------------------------- bounds
Players == {1, 2, 3}          \* player_id values (uuid in the code)
Procs == {1, 2}               \* request handlers running at the same time
Chars == {"h", "i", "8", "9", "q", "Q", " ", "\n"} \* characters of a move_uci
MaxLen == 5                   \* longest move_uci a request carries
MaxTickets == 4               \* rows the tickets table may hold
MaxRequests == 3              \* requests the server accepts in a run
MaxPly == 3                   \* largest ply a request carries
MaxGames == 2                 \* rows the games table may hold

TICKET_TTL_SECONDS == 30
\* the instants at which requests arrive: a ticket of instant 0 is still
\* alive at instant TTL and stale one second later
ClockValues == {0, 1, TICKET_TTL_SECONDS, TICKET_TTL_SECONDS + 1}
ACTIVE_TICKET_STATUSES == {"queued", "matched"}

VARIABLES
    now,      \* wall clock, seconds
    tickets,  \* committed rows of table tickets
    matches,  \* committed rows of table matches
    games,    \* committed ids of table games
    moves,    \* committed rows of table game_moves
    pc,       \* per process: "idle" or the statement it runs next
    req,      \* per process: the request it serves
    txNow,    \* per process: NOW() of its transaction
    row,      \* per process: ticket_row of the handler
    tw,       \* per process: uncommitted ticket rows (inserted or updated)
    mw,       \* per process: uncommitted match rows
    gw,       \* per process: uncommitted game ids
    vw,       \* per process: uncommitted game_moves rows
    lockT,    \* per process: ticket ids it holds a row lock on
    lockM,    \* per process: match ids it holds a row lock on
    resp,     \* per process: the response it is about to return
    served,   \* requests accepted so far
    lastEnq   \* per player: ticket id and expires_at its last enqueue returned

vars == <<now, tickets, matches, games, moves, pc, req, txNow, row,
          tw, mw, gw, vw, lockT, lockM, resp, served, lastEnq>>

dbVars == <<tickets, matches, games, moves>>

\* ------------------------------------------------------------ row shapes
NoTicket ==
    [id |-> 0, player_id |-> 0, status |-> "none", heartbeat_at |-> 0,
     expires_at |-> 0, match_id |-> 0, created_at |-> 0]

NoMatch ==
    [id |-> 0, game_id |-> 0, white_player_id |-> 0, black_player_id |-> 0,
     status |-> "none"]

NoMove == [game_id |-> 0, ply |-> 0, move_uci |-> <<>>, player_id |-> 0]

NoState ==
    [match_id |-> 0, game_id |-> 0, status |-> "none", white_player_id |-> 0,
     black_player_id |-> 0, your_color |-> "none", latest_ply |-> 0,
     next_turn |-> "none", moves |-> <<>>]

NoReq ==
    [op |-> "none", player_id |-> 0, ticket_id |-> 0, match_id |-> 0,
     ply |-> 0, move_uci |-> <<>>]

NoResp ==
    [kind |-> "none", ticket |-> NoTicket, assigned_color |-> "none",
     state |-> NoState, move |-> NoMove]

NoLast == [id |-> 0, expires_at |-> 0]

\* ------------------------------------------------------- pure functions
utcnow == now

ticket_expiry_from_now == utcnow + TICKET_TTL_SECONDS

\* faulty variant: the parity is the other way round
next_turn_for_ply_Swapped(latest_ply) ==
    IF latest_ply % 2 = 0 THEN "black" ELSE "white"

next_turn_for_ply(latest_ply) ==
    IF latest_ply % 2 = 0 THEN "white" ELSE "black"

color_for_player(match_row, player_id) ==
    IF player_id = match_row.white_player_id THEN "white"
    ELSE IF player_id = match_row.black_player_id THEN "black"
    ELSE "none"

\* ------------------------------------------------- GameMoveRequest
\* A move_uci is a sequence of characters. Texts(n): the texts of length <= n
RECURSIVE Texts(_)
Texts(n) ==
    IF n = 0 THEN {<<>>}
    ELSE LET shorter == Texts(n - 1)
         IN  shorter \cup {Append(t, c) : t \in {u \in shorter : Len(u) = n - 1},
                                           c \in Chars}

Whitespace == {" ", "\n"}

\* str.strip(): leading and trailing whitespace removed
RECURSIVE lstrip(_)
lstrip(text) ==
    IF text # <<>> /\ Head(text) \in Whitespace
    THEN lstrip(Tail(text)) ELSE text

RECURSIVE rstrip(_)
rstrip(text) ==
    IF text # <<>> /\ text[Len(text)] \in Whitespace
    THEN rstrip(SubSeq(text, 1, Len(text) - 1)) ELSE text

strip(text) == rstrip(lstrip(text))

lower_char(c) == IF c = "Q" THEN "q" ELSE c

\* faulty variant: the text keeps its case
lower_Identity(text) == text

\* str.lower()
lower(text) == [i \in 1..Len(text) |-> lower_char(text[i])]

\* re.compile(r"^[a-h][1-8][a-h][1-8][qrbn]?$", re.IGNORECASE): the character
\* classes in order, the last one optional
UCI_MOVE_PATTERN ==
    LET file == [chars |-> {"a", "b", "c", "d", "e", "f", "g", "h"},
                 optional |-> FALSE]
        rank == [chars |-> {"1", "2", "3", "4", "5", "6", "7", "8"},
                 optional |-> FALSE]
        promotion == [chars |-> {"q", "r", "b", "n"}, optional |-> TRUE]
    IN  <<file, rank, file, rank, promotion>>

\* Pattern.match(text): the classes are matched from the start of the text
\* without regard to case; `$` accepts the end of the text or a last newline
RECURSIVE pattern_match(_, _)
pattern_match(text, pattern) ==
    IF pattern = <<>>
    THEN text = <<>> \/ text = <<"\n">>
    ELSE \/ /\ text # <<>>
            /\ lower_char(Head(text)) \in Head(pattern).chars
            /\ pattern_match(Tail(text), Tail(pattern))
         \/ /\ Head(pattern).optional
            /\ pattern_match(text, Tail(pattern))

\* GameMoveRequest.validate_uci_move: ok = FALSE is the ValueError (422),
\* move is the value the handler receives
validate_uci_move(value) ==
    LET move == lower(strip(value))
    IN  [ok |-> pattern_match(move, UCI_MOVE_PATTERN), move |-> move]

\* the move_uci values the ledger's handlers receive: payloads that passed
\* validate_uci_move, as it returned them
MoveTexts ==
    {validate_uci_move(value).move :
        value \in {v \in {<<"h", "8", "h", "8">>, <<"h", "8", "h", "8", "Q">>} :
                      validate_uci_move(v).ok}}

\* ------------------------------------------------- what a process sees
\* A statement of process p reads the committed rows and p's own writes.
TicketIds(rows) == {t.id : t \in rows}

ViewTickets(p) == {t \in tickets : t.id \notin TicketIds(tw[p])} \cup tw[p]

ViewMatches(p) == matches \cup mw[p]

TicketLockedByOther(p, id) == \E q \in Procs \ {p} : id \in lockT[q]

\* faulty variant: fetch_match_row reads the match without FOR UPDATE
MatchLockedByOther_Never(p, id) == FALSE

MatchLockedByOther(p, id) == \E q \in Procs \ {p} : id \in lockM[q]

UsedTicketIds == TicketIds(tickets) \cup UNION {TicketIds(tw[q]) : q \in Procs}

UsedMatchIds ==
    {m.id : m \in matches} \cup UNION {{m.id : m \in mw[q]} : q \in Procs}

UsedGameIds == games \cup UNION {gw[q] : q \in Procs}

\* uuid.uuid4(): an id no row has
FreshId(used) == CHOOSE i \in 1..(Cardinality(used) + 1) : i \notin used

\* UPDATE ... WHERE id = r.id, inside p's transaction
PutTicket(rows, r) == {t \in rows : t.id # r.id} \cup {r}

fetch_match_row(p, match_id) ==
    IF \E m \in ViewMatches(p) : m.id = match_id
    THEN CHOOSE m \in ViewMatches(p) : m.id = match_id
    ELSE NoMatch

fetch_ticket_row(p, ticket_id, player_id) ==
    LET hits == {t \in ViewTickets(p) :
                    /\ t.id = ticket_id
                    /\ (player_id # 0 => t.player_id = player_id)}
    IN  IF hits = {} THEN NoTicket ELSE CHOOSE t \in hits : TRUE

ticket_response_for_row(p, ticket_row) ==
    LET match_row == IF ticket_row.match_id # 0
                     THEN fetch_match_row(p, ticket_row.match_id)
                     ELSE NoMatch
    IN  [NoResp EXCEPT
            !.kind = "Ok",
            !.ticket = ticket_row,
            !.assigned_color =
                IF match_row.id # 0
                THEN color_for_player(match_row, ticket_row.player_id)
                ELSE "none"]

ErrorResponse(kind) == [NoResp EXCEPT !.kind = kind]

\* ---------------------------------------------------------------- Init
Init ==
    /\ now = 0
    /\ tickets = {}
    /\ matches = {}
    /\ games = {}
    /\ moves = {}
    /\ pc = [p \in Procs |-> "idle"]
    /\ req = [p \in Procs |-> NoReq]
    /\ txNow = [p \in Procs |-> 0]
    /\ row = [p \in Procs |-> NoTicket]
    /\ tw = [p \in Procs |-> {}]
    /\ mw = [p \in Procs |-> {}]
    /\ gw = [p \in Procs |-> {}]
    /\ vw = [p \in Procs |-> {}]
    /\ lockT = [p \in Procs |-> {}]
    /\ lockM = [p \in Procs |-> {}]
    /\ resp = [p \in Procs |-> NoResp]
    /\ served = 0
    /\ lastEnq = [pl \in Players |-> NoLast]

\* --------------------------------------------------------------- clock
\* The clock is read between requests: a transaction's statements all see the
\* time at which it began.
Tick ==
    /\ \A p \in Procs : pc[p] = "idle"
    /\ \E t \in ClockValues :
          /\ t > now
          /\ now' = t
    /\ UNCHANGED <<dbVars, pc, req, txNow, row, tw, mw, gw, vw, lockT, lockM,
                   resp, served, lastEnq>>

\* ------------------------------------------------------ transaction ends
\* faulty variant: the match row of a pairing is not part of the commit
Commit_WithoutMatches(p) ==
    /\ pc[p] = "commit"
    /\ tickets' = {t \in tickets : t.id \notin TicketIds(tw[p])} \cup tw[p]
    /\ games' = games \cup gw[p]
    /\ pc' = [pc EXCEPT ![p] = "idle"]
    /\ req' = [req EXCEPT ![p] = NoReq]
    /\ txNow' = [txNow EXCEPT ![p] = 0]
    /\ row' = [row EXCEPT ![p] = NoTicket]
    /\ tw' = [tw EXCEPT ![p] = {}]
    /\ mw' = [mw EXCEPT ![p] = {}]
    /\ gw' = [gw EXCEPT ![p] = {}]
    /\ vw' = [vw EXCEPT ![p] = {}]
    /\ lockT' = [lockT EXCEPT ![p] = {}]
    /\ lockM' = [lockM EXCEPT ![p] = {}]
    /\ resp' = [resp EXCEPT ![p] = NoResp]
    /\ UNCHANGED <<now, matches, moves, served, lastEnq>>

\* The with-block exits normally: COMMIT publishes the writes, frees the locks.
Commit(p) ==
    /\ pc[p] = "commit"
    /\ tickets' = {t \in tickets : t.id \notin TicketIds(tw[p])} \cup tw[p]
    /\ matches' = matches \cup mw[p]
    /\ games' = games \cup gw[p]
    /\ moves' = {v \in moves :
                    ~ \E w \in vw[p] : w.game_id = v.game_id /\ w.ply = v.ply}
                \cup vw[p]
    /\ lastEnq' = IF req[p].op = "enqueue"
                  THEN [lastEnq EXCEPT ![req[p].player_id] =
                          [id |-> resp[p].ticket.id,
                           expires_at |-> resp[p].ticket.expires_at]]
                  ELSE lastEnq
    /\ pc' = [pc EXCEPT ![p] = "idle"]
    /\ req' = [req EXCEPT ![p] = NoReq]
    /\ txNow' = [txNow EXCEPT ![p] = 0]
    /\ row' = [row EXCEPT ![p] = NoTicket]
    /\ tw' = [tw EXCEPT ![p] = {}]
    /\ mw' = [mw EXCEPT ![p] = {}]
    /\ gw' = [gw EXCEPT ![p] = {}]
    /\ vw' = [vw EXCEPT ![p] = {}]
    /\ lockT' = [lockT EXCEPT ![p] = {}]
    /\ lockM' = [lockM EXCEPT ![p] = {}]
    /\ resp' = [resp EXCEPT ![p] = NoResp]
    /\ UNCHANGED <<now, served>>

\* faulty variant: the ticket updates made before the exception are kept
Rollback_KeepsTickets(p) ==
    /\ pc[p] = "rollback"
    /\ tickets' = {t \in tickets : t.id \notin TicketIds(tw[p])} \cup tw[p]
    /\ pc' = [pc EXCEPT ![p] = "idle"]
    /\ req' = [req EXCEPT ![p] = NoReq]
    /\ txNow' = [txNow EXCEPT ![p] = 0]
    /\ row' = [row EXCEPT ![p] = NoTicket]
    /\ tw' = [tw EXCEPT ![p] = {}]
    /\ mw' = [mw EXCEPT ![p] = {}]
    /\ gw' = [gw EXCEPT ![p] = {}]
    /\ vw' = [vw EXCEPT ![p] = {}]
    /\ lockT' = [lockT EXCEPT ![p] = {}]
    /\ lockM' = [lockM EXCEPT ![p] = {}]
    /\ resp' = [resp EXCEPT ![p] = NoResp]
    /\ UNCHANGED <<now, matches, games, moves, served, lastEnq>>

\* An exception leaves the with-block: ROLLBACK drops the writes and the locks.
Rollback(p) ==
    /\ pc[p] = "rollback"
    /\ pc' = [pc EXCEPT ![p] = "idle"]
    /\ req' = [req EXCEPT ![p] = NoReq]
    /\ txNow' = [txNow EXCEPT ![p] = 0]
    /\ row' = [row EXCEPT ![p] = NoTicket]
    /\ tw' = [tw EXCEPT ![p] = {}]
    /\ mw' = [mw EXCEPT ![p] = {}]
    /\ gw' = [gw EXCEPT ![p] = {}]
    /\ vw' = [vw EXCEPT ![p] = {}]
    /\ lockT' = [lockT EXCEPT ![p] = {}]
    /\ lockM' = [lockM EXCEPT ![p] = {}]
    /\ resp' = [resp EXCEPT ![p] = NoResp]
    /\ UNCHANGED <<now, dbVars, served, lastEnq>>

\* ------------------------------------------------------ Ticket Registry
\* faulty variant: the sweep does not look at the status
StaleTickets_AnyStatus(p) ==
    {t \in ViewTickets(p) : t.expires_at < now}

\* WHERE status = 'queued' AND expires_at < NOW()
StaleTickets(p) ==
    {t \in ViewTickets(p) : t.status = "queued" /\ t.expires_at < now}

\* faulty variant: the player's ticket is looked up whatever its status
ActiveTicketsOf_AnyStatus(p, player_id) ==
    {t \in ViewTickets(p) : t.player_id = player_id}

\* WHERE player_id = %s AND status IN ('queued', 'matched')
ActiveTicketsOf(p, player_id) ==
    {t \in ViewTickets(p) :
        t.player_id = player_id /\ t.status \in ACTIVE_TICKET_STATUSES}

\* ORDER BY created_at DESC LIMIT 1
LatestCreated(rows) ==
    {t \in rows : \A u \in rows : u.created_at <= t.created_at}

\* tickets_one_active_per_player_idx: the INSERT waits while another
\* transaction holds an uncommitted write on an active ticket of the player
UniqueIndexWait(p, player_id) ==
    \E q \in Procs \ {p} : \E w \in tw[q] :
        /\ w.player_id = player_id
        /\ \/ w.status \in ACTIVE_TICKET_STATUSES
           \/ \E t \in tickets :
                 t.id = w.id /\ t.status \in ACTIVE_TICKET_STATUSES

\* faulty variant: the partial unique index is missing
UniqueIndexConflict_NoIndex(p, player_id) == FALSE

\* tickets_one_active_per_player_idx: the INSERT hits a row of the index
UniqueIndexConflict(p, player_id) ==
    \E t \in ViewTickets(p) :
        t.player_id = player_id /\ t.status \in {"queued", "matched"}

\* The (ticket_id, player_id) a client may send: the id of a ticket a response
\* has shown (a committed row) with its owner or with another player, or an
\* id no row has (0); player_id 0 is the optional player_id left out
OtherPlayer(player_id) == CHOOSE pl \in Players : pl # player_id

TicketRequests(optional) ==
    {<<t.id, t.player_id>> : t \in tickets}
    \cup {<<t.id, OtherPlayer(t.player_id)>> : t \in tickets}
    \cup {<<0, OtherPlayer(0)>>}
    \cup (IF optional THEN {<<t.id, 0>> : t \in tickets} ELSE {})

\* faulty variant: the refresh forgets to add the TTL
RefreshTicket_NoTTL(p, ticket_row) ==
    [ticket_row EXCEPT !.heartbeat_at = txNow[p], !.expires_at = utcnow]

\* UPDATE tickets SET heartbeat_at = NOW(), expires_at = %s WHERE id = %s,
\* with expires_at = ticket_expiry_from_now()
RefreshTicket(p, ticket_row) ==
    [ticket_row EXCEPT !.heartbeat_at = txNow[p],
                       !.expires_at = ticket_expiry_from_now]

\* the statement that follows expire_stale_tickets in the handler of op
AfterSweep(op) ==
    CASE op = "enqueue" -> "select"
      [] op = "heartbeat" -> "hb_fetch"
      [] OTHER -> "get_fetch"

\* The transaction of a handler that calls expire_stale_tickets first begins:
\* NOW() is fixed, and the sweep has rows to update or has none
begin_transaction(p, op) ==
    /\ txNow' = [txNow EXCEPT ![p] = now]
    /\ pc' = [pc EXCEPT ![p] =
                IF StaleTickets(p) = {} THEN AfterSweep(op) ELSE "sweep"]

\* expire_stale_tickets: UPDATE tickets SET status = 'expired' WHERE status =
\* 'queued' AND expires_at < NOW(). The statement locks and updates the rows
\* it finds one after the other, in an order the query does not fix; at a
\* row locked by another transaction it waits for that transaction to end
\* and looks at the row again.
expire_stale_tickets(p) ==
    /\ pc[p] = "sweep"
    /\ IF StaleTickets(p) = {}
       THEN /\ pc' = [pc EXCEPT ![p] = AfterSweep(req[p].op)]
            /\ UNCHANGED <<tw, lockT>>
       ELSE \E t \in StaleTickets(p) :
               /\ ~ TicketLockedByOther(p, t.id)
               /\ tw' = [tw EXCEPT ![p] =
                           PutTicket(@, [t EXCEPT !.status = "expired"])]
               /\ lockT' = [lockT EXCEPT ![p] = @ \cup {t.id}]
               /\ pc' = [pc EXCEPT ![p] =
                           IF StaleTickets(p) = {t}
                           THEN AfterSweep(req[p].op) ELSE "sweep"]
    /\ UNCHANGED <<now, dbVars, req, txNow, row, mw, gw, vw, lockM, resp,
                   served, lastEnq>>

\* enqueue_player_for_matchmaking: the request arrives, the transaction begins
enqueue_player_for_matchmaking(p) ==
    /\ pc[p] = "idle"
    /\ served < MaxRequests
    /\ Cardinality(UsedTicketIds)
         + Cardinality({q \in Procs : /\ req[q].op = "enqueue"
                                      /\ pc[q] \in {"sweep", "select", "insert"}})
         < MaxTickets
    /\ \E player_id \in Players :
          req' = [req EXCEPT ![p] =
                    [NoReq EXCEPT !.op = "enqueue", !.player_id = player_id]]
    /\ begin_transaction(p, "enqueue")
    /\ served' = served + 1
    /\ UNCHANGED <<now, dbVars, row, tw, mw, gw, vw, lockT, lockM, resp,
                   lastEnq>>

\* heartbeat_matchmaking_ticket: the request arrives, the transaction begins
heartbeat_matchmaking_ticket(p) ==
    /\ pc[p] = "idle"
    /\ served < MaxRequests
    /\ \E r \in TicketRequests(FALSE) :
          req' = [req EXCEPT ![p] =
                    [NoReq EXCEPT !.op = "heartbeat", !.ticket_id = r[1],
                                  !.player_id = r[2]]]
    /\ begin_transaction(p, "heartbeat")
    /\ served' = served + 1
    /\ UNCHANGED <<now, dbVars, row, tw, mw, gw, vw, lockT, lockM, resp,
                   lastEnq>>

\* faulty variant: the ticket found is refreshed whatever its status
RefreshedByEnqueue_Always(ticket_row) == TRUE

\* if ticket_row["status"] == "queued": the UPDATE of heartbeat_at, expires_at
RefreshedByEnqueue(ticket_row) == ticket_row.status = "queued"

\* ensure_player_ticket, first SELECT ... FOR UPDATE and the refresh of a
\* queued ticket
ensure_player_ticket_select(p) ==
    /\ pc[p] = "select"
    /\ LET hits == LatestCreated(ActiveTicketsOf(p, req[p].player_id))
       IN  /\ \A t \in hits : ~ TicketLockedByOther(p, t.id)
           /\ IF hits = {}
              THEN /\ pc' = [pc EXCEPT ![p] = "insert"]
                   /\ UNCHANGED <<row, tw, lockT>>
              ELSE \E ticket_row \in hits :
                     LET refreshed ==
                           IF RefreshedByEnqueue(ticket_row)
                           THEN RefreshTicket(p, ticket_row)
                           ELSE ticket_row
                     IN  /\ lockT' = [lockT EXCEPT ![p] = @ \cup {ticket_row.id}]
                         /\ tw' = [tw EXCEPT ![p] =
                                     IF RefreshedByEnqueue(ticket_row)
                                     THEN PutTicket(@, refreshed) ELSE @]
                         /\ row' = [row EXCEPT ![p] = refreshed]
                         /\ pc' = [pc EXCEPT ![p] = "pair"]
    /\ UNCHANGED <<now, dbVars, req, txNow, mw, gw, vw, lockM, resp, served, lastEnq>>

\* ensure_player_ticket, INSERT ... ON CONFLICT DO NOTHING
ensure_player_ticket_insert(p) ==
    /\ pc[p] = "insert"
    /\ ~ UniqueIndexWait(p, req[p].player_id)
    /\ IF UniqueIndexConflict(p, req[p].player_id)
       THEN /\ pc' = [pc EXCEPT ![p] = "reselect"]
            /\ UNCHANGED <<row, tw, lockT>>
       ELSE LET inserted_row ==
                  [id |-> FreshId(UsedTicketIds),
                   player_id |-> req[p].player_id,
                   status |-> "queued",
                   heartbeat_at |-> txNow[p],
                   expires_at |-> ticket_expiry_from_now,
                   match_id |-> 0,
                   created_at |-> txNow[p]]
            IN  /\ tw' = [tw EXCEPT ![p] = @ \cup {inserted_row}]
                /\ lockT' = [lockT EXCEPT ![p] = @ \cup {inserted_row.id}]
                /\ row' = [row EXCEPT ![p] = inserted_row]
                /\ pc' = [pc EXCEPT ![p] = "pair"]
    /\ UNCHANGED <<now, dbVars, req, txNow, mw, gw, vw, lockM, resp, served, lastEnq>>

\* ensure_player_ticket, second SELECT ... FOR UPDATE after the INSERT did
\* nothing; 409 when the row that blocked the INSERT is active no more
ensure_player_ticket_reselect(p) ==
    /\ pc[p] = "reselect"
    /\ LET hits == LatestCreated(ActiveTicketsOf(p, req[p].player_id))
       IN  /\ \A t \in hits : ~ TicketLockedByOther(p, t.id)
           /\ IF hits = {}
              THEN /\ resp' = [resp EXCEPT ![p] = ErrorResponse("Conflict")]
                   /\ pc' = [pc EXCEPT ![p] = "rollback"]
                   /\ UNCHANGED <<row, lockT>>
              ELSE \E existing_row \in hits :
                     /\ lockT' = [lockT EXCEPT ![p] = @ \cup {existing_row.id}]
                     /\ row' = [row EXCEPT ![p] = existing_row]
                     /\ pc' = [pc EXCEPT ![p] = "pair"]
                     /\ UNCHANGED resp
    /\ UNCHANGED <<now, dbVars, req, txNow, tw, mw, gw, vw, lockM, served, lastEnq>>

\* -------------------------------------------------------- Pairing Engine
\* faulty variant: the candidate scan takes rows locked by another transaction
PairCandidates_NoSkipLocked(p, ticket_row) ==
    {t \in ViewTickets(p) :
        /\ t.status = "queued"
        /\ t.match_id = 0
        /\ t.expires_at >= txNow[p]
        /\ t.player_id # ticket_row.player_id}

\* faulty variant: a candidate at the instant of its expires_at is left out
PairCandidates_StrictExpiry(p, ticket_row) ==
    {t \in ViewTickets(p) :
        /\ t.status = "queued"
        /\ t.match_id = 0
        /\ t.expires_at > txNow[p]
        /\ t.player_id # ticket_row.player_id
        /\ ~ TicketLockedByOther(p, t.id)}

\* WHERE status = 'queued' AND match_id IS NULL AND expires_at >= NOW()
\* AND player_id <> %s ... FOR UPDATE SKIP LOCKED
PairCandidates(p, ticket_row) ==
    {t \in ViewTickets(p) :
        /\ t.status = "queued"
        /\ t.match_id = 0
        /\ t.expires_at >= txNow[p]
        /\ t.player_id # ticket_row.player_id
        /\ ~ TicketLockedByOther(p, t.id)}

\* faulty variant: the scan is ordered by created_at DESC
EarliestCreated_Latest(rows) ==
    {t \in rows : \A u \in rows : u.created_at <= t.created_at}

\* ORDER BY created_at ASC LIMIT 1
EarliestCreated(rows) ==
    {t \in rows : \A u \in rows : t.created_at <= u.created_at}

\* faulty variant: the comparison of the creation times is strict
white_player_id_Strict(ticket_row, other_ticket) ==
    IF other_ticket.created_at < ticket_row.created_at
    THEN other_ticket.player_id ELSE ticket_row.player_id

white_player_id(ticket_row, other_ticket) ==
    IF other_ticket.created_at <= ticket_row.created_at
    THEN other_ticket.player_id ELSE ticket_row.player_id

\* faulty variant: black is always the caller
black_player_id_Caller(ticket_row, other_ticket) == ticket_row.player_id

black_player_id(ticket_row, other_ticket) ==
    IF white_player_id(ticket_row, other_ticket) = other_ticket.player_id
    THEN ticket_row.player_id ELSE other_ticket.player_id

\* faulty variant: the UPDATE of the pairing does not set match_id
MatchedTickets_StatusOnly(p, ids, match_id) ==
    {[t EXCEPT !.status = "matched",
               !.expires_at = ticket_expiry_from_now] :
        t \in {u \in ViewTickets(p) : u.id \in ids}}

\* The rows of the two tickets after UPDATE tickets SET status = 'matched',
\* match_id = %s, expires_at = %s WHERE id IN (%s, %s)
MatchedTickets(p, ids, match_id) ==
    {[t EXCEPT !.status = "matched", !.match_id = match_id,
               !.expires_at = ticket_expiry_from_now] :
        t \in {u \in ViewTickets(p) : u.id \in ids}}

\* matches: CHECK (white_player_id <> black_player_id)
MatchesCheck(match_row) ==
    match_row.white_player_id # match_row.black_player_id

\* faulty variant: the pairing does not look at the caller's status
PairingSkipped_Never(ticket_row) == FALSE

\* if ticket_row["status"] != "queued": return ticket_row
PairingSkipped(ticket_row) == ticket_row.status # "queued"

\* try_pair_ticket and ticket_response_for_row: the last statements of
\* enqueue_player_for_matchmaking and heartbeat_matchmaking_ticket. An INSERT
\* INTO matches that fails the CHECK raises psycopg.errors.CheckViolation.
try_pair_ticket(p) ==
    /\ pc[p] = "pair"
    /\ LET ticket_row == row[p]
           found == EarliestCreated(PairCandidates(p, ticket_row))
       IN  IF PairingSkipped(ticket_row) \/ found = {}
           THEN /\ resp' = [resp EXCEPT ![p] =
                              ticket_response_for_row(p, ticket_row)]
                /\ pc' = [pc EXCEPT ![p] = "commit"]
                /\ UNCHANGED <<row, tw, mw, gw, lockT>>
           ELSE \E other_ticket \in found :
                  LET match_id == FreshId(UsedMatchIds)
                      game_id == FreshId(UsedGameIds)
                      ids == {ticket_row.id, other_ticket.id}
                      paired == MatchedTickets(p, ids, match_id)
                      match_row ==
                        [id |-> match_id, game_id |-> game_id,
                         white_player_id |->
                            white_player_id(ticket_row, other_ticket),
                         black_player_id |->
                            black_player_id(ticket_row, other_ticket),
                         status |-> "active"]
                      refreshed_ticket ==
                        CHOOSE t \in paired : t.id = ticket_row.id
                  IN  IF other_ticket.player_id = ticket_row.player_id
                      THEN /\ resp' = [resp EXCEPT ![p] =
                                 ticket_response_for_row(p, ticket_row)]
                           /\ lockT' = [lockT EXCEPT ![p] =
                                          @ \cup {other_ticket.id}]
                           /\ pc' = [pc EXCEPT ![p] = "commit"]
                           /\ UNCHANGED <<row, tw, mw, gw>>
                      ELSE IF ~ MatchesCheck(match_row)
                      THEN /\ resp' = [resp EXCEPT ![p] =
                                 ErrorResponse("StorageError")]
                           /\ lockT' = [lockT EXCEPT ![p] =
                                          @ \cup {other_ticket.id}]
                           /\ pc' = [pc EXCEPT ![p] = "rollback"]
                           /\ UNCHANGED <<row, tw, mw, gw>>
                      ELSE /\ gw' = [gw EXCEPT ![p] = @ \cup {game_id}]
                           /\ mw' = [mw EXCEPT ![p] = @ \cup {match_row}]
                           /\ tw' = [tw EXCEPT ![p] =
                                  {t \in @ : t.id \notin ids} \cup paired]
                           /\ lockT' = [lockT EXCEPT ![p] = @ \cup ids]
                           /\ row' = [row EXCEPT ![p] = refreshed_ticket]
                           /\ resp' = [resp EXCEPT ![p] =
                                 [NoResp EXCEPT
                                    !.kind = "Ok",
                                    !.ticket = refreshed_ticket,
                                    !.assigned_color =
                                       color_for_player(match_row,
                                          refreshed_ticket.player_id)]]
                           /\ pc' = [pc EXCEPT ![p] = "commit"]
    /\ UNCHANGED <<now, dbVars, req, txNow, vw, lockM, served, lastEnq>>

\* faulty variant: only a cancelled ticket is returned as it is
HeartbeatReturnsAsIs_CancelledOnly(ticket_row) ==
    ticket_row.status = "cancelled"

\* if ticket_row["status"] in {"cancelled", "expired"}: return
HeartbeatReturnsAsIs(ticket_row) ==
    ticket_row.status \in {"cancelled", "expired"}

\* heartbeat_matchmaking_ticket after the sweep: fetch_ticket_row ... FOR
\* UPDATE, the 404, the return of a cancelled or expired ticket, the refresh
heartbeat_fetch_ticket_row(p) ==
    /\ pc[p] = "hb_fetch"
    /\ LET ticket_row ==
             fetch_ticket_row(p, req[p].ticket_id, req[p].player_id)
       IN  /\ ~ TicketLockedByOther(p, ticket_row.id)
           /\ IF ticket_row.id = 0
              THEN /\ resp' = [resp EXCEPT ![p] = ErrorResponse("NotFound")]
                   /\ pc' = [pc EXCEPT ![p] = "rollback"]
                   /\ UNCHANGED <<row, tw, lockT>>
              ELSE IF HeartbeatReturnsAsIs(ticket_row)
              THEN /\ resp' = [resp EXCEPT ![p] =
                                 ticket_response_for_row(p, ticket_row)]
                   /\ lockT' = [lockT EXCEPT ![p] = @ \cup {ticket_row.id}]
                   /\ pc' = [pc EXCEPT ![p] = "commit"]
                   /\ UNCHANGED <<row, tw>>
              ELSE LET refreshed == RefreshTicket(p, ticket_row)
                   IN  /\ lockT' = [lockT EXCEPT ![p] = @ \cup {ticket_row.id}]
                       /\ tw' = [tw EXCEPT ![p] = PutTicket(@, refreshed)]
                       /\ row' = [row EXCEPT ![p] = refreshed]
                       /\ pc' = [pc EXCEPT ![p] = "pair"]
                       /\ UNCHANGED resp
    /\ UNCHANGED <<now, dbVars, req, txNow, mw, gw, vw, lockM, served, lastEnq>>

\* get_matchmaking_ticket: the request arrives, the transaction begins
get_matchmaking_ticket(p) ==
    /\ pc[p] = "idle"
    /\ served < MaxRequests
    /\ \E r \in TicketRequests(TRUE) :
          req' = [req EXCEPT ![p] =
                    [NoReq EXCEPT !.op = "get_ticket", !.ticket_id = r[1],
                                  !.player_id = r[2]]]
    /\ begin_transaction(p, "get_ticket")
    /\ served' = served + 1
    /\ UNCHANGED <<now, dbVars, row, tw, mw, gw, vw, lockT, lockM, resp,
                   lastEnq>>

\* get_matchmaking_ticket after the sweep: fetch_ticket_row without a lock
\* (it reads the rows the sweep has just updated and waits for nothing),
\* the 404, the response
get_fetch_ticket_row(p) ==
    /\ pc[p] = "get_fetch"
    /\ LET ticket_row ==
             fetch_ticket_row(p, req[p].ticket_id, req[p].player_id)
       IN  IF ticket_row.id = 0
           THEN /\ resp' = [resp EXCEPT ![p] = ErrorResponse("NotFound")]
                /\ pc' = [pc EXCEPT ![p] = "rollback"]
           ELSE /\ resp' = [resp EXCEPT ![p] =
                              ticket_response_for_row(p, ticket_row)]
                /\ pc' = [pc EXCEPT ![p] = "commit"]
    /\ UNCHANGED <<now, dbVars, req, txNow, row, tw, mw, gw, vw, lockT, lockM,
                   served, lastEnq>>

\* faulty variant: the check of the matched status is missing
CancelRejected_Never(ticket_row) == FALSE

\* if ticket_row["status"] == "matched": raise HTTPException(409)
CancelRejected(ticket_row) == ticket_row.status = "matched"

\* cancel_matchmaking_ticket: fetch_ticket_row ... FOR UPDATE, the 404, the
\* 409 of a matched ticket, UPDATE tickets SET status = 'cancelled'
cancel_matchmaking_ticket(p) ==
    /\ pc[p] = "idle"
    /\ \E r \in TicketRequests(FALSE) :
         LET ticket_id == r[1]
             player_id == r[2]
             ticket_row == fetch_ticket_row(p, ticket_id, player_id)
             cancelled_row == [ticket_row EXCEPT !.status = "cancelled"]
         IN  /\ ~ TicketLockedByOther(p, ticket_row.id)
             /\ req' = [req EXCEPT ![p] =
                          [NoReq EXCEPT !.op = "cancel",
                                        !.ticket_id = ticket_id,
                                        !.player_id = player_id]]
             /\ IF ticket_row.id = 0
                THEN /\ resp' = [resp EXCEPT ![p] = ErrorResponse("NotFound")]
                     /\ pc' = [pc EXCEPT ![p] = "rollback"]
                     /\ UNCHANGED <<tw, lockT>>
                ELSE IF CancelRejected(ticket_row)
                THEN /\ resp' = [resp EXCEPT ![p] = ErrorResponse("Conflict")]
                     /\ lockT' = [lockT EXCEPT ![p] = {ticket_row.id}]
                     /\ pc' = [pc EXCEPT ![p] = "rollback"]
                     /\ UNCHANGED tw
                ELSE /\ tw' = [tw EXCEPT ![p] = {cancelled_row}]
                     /\ lockT' = [lockT EXCEPT ![p] = {ticket_row.id}]
                     /\ resp' = [resp EXCEPT ![p] =
                                   ticket_response_for_row(p, cancelled_row)]
                     /\ pc' = [pc EXCEPT ![p] = "commit"]
    /\ UNCHANGED <<now, dbVars, txNow, row, mw, gw, vw, lockM, lastEnq>>
    /\ served < MaxRequests
    /\ served' = served + 1

\* ------------------------------------------------ Match State Projector
MoveKeys(rows) == {<<v.game_id, v.ply>> : v \in rows}

ViewMoves(p) ==
    {v \in moves : <<v.game_id, v.ply>> \notin MoveKeys(vw[p])} \cup vw[p]

MoveLockedByOther(p, game_id, ply) ==
    \E q \in Procs \ {p} : <<game_id, ply>> \in MoveKeys(vw[q])

\* ORDER BY ply ASC
RECURSIVE OrderByPly(_)
OrderByPly(rows) ==
    IF rows = {} THEN <<>>
    ELSE LET first == CHOOSE v \in rows : \A w \in rows : v.ply <= w.ply
         IN  <<first>> \o OrderByPly(rows \ {first})

\* SELECT %s::uuid AS match_id, game_id, ply, move_uci, player_id FROM
\* game_moves WHERE game_id = %s AND ply > %s ORDER BY ply ASC
fetch_match_moves_for_match(p, match_id, game_id, after_ply) ==
    LET rows == {v \in ViewMoves(p) : v.game_id = game_id /\ v.ply > after_ply}
        ordered == OrderByPly(rows)
    IN  [i \in 1..Len(ordered) |->
            [match_id |-> match_id, game_id |-> ordered[i].game_id,
             ply |-> ordered[i].ply, move_uci |-> ordered[i].move_uci,
             player_id |-> ordered[i].player_id]]

\* faulty variant: latest_ply is the number of moves
LatestPlyOf_Count(move_list) == Len(move_list)

\* moves[-1]["ply"] if moves else 0
LatestPlyOf(move_list) ==
    IF Len(move_list) = 0 THEN 0 ELSE move_list[Len(move_list)].ply

\* current_match_state for a match row that exists
current_match_state(p, match_id, player_id) ==
    LET match_row == fetch_match_row(p, match_id)
        move_list ==
            fetch_match_moves_for_match(p, match_id, match_row.game_id, 0)
        latest_ply == LatestPlyOf(move_list)
    IN  [match_id |-> match_row.id,
         game_id |-> match_row.game_id,
         status |-> match_row.status,
         white_player_id |-> match_row.white_player_id,
         black_player_id |-> match_row.black_player_id,
         your_color |-> IF player_id # 0
                        THEN color_for_player(match_row, player_id)
                        ELSE "none",
         latest_ply |-> latest_ply,
         next_turn |-> next_turn_for_ply(latest_ply),
         moves |-> move_list]

\* build_conflict_detail inside HTTPException(409). After a statement of the
\* transaction has failed (failed_tx), the SELECT of current_match_state
\* raises psycopg.errors.InFailedSqlTransaction: no HTTPException is built
\* and the handler ends with that storage error.
build_conflict_detail(p, failed_tx, match_id, player_id) ==
    IF failed_tx
    THEN ErrorResponse("StorageError")
    ELSE [NoResp EXCEPT
            !.kind = "Conflict",
            !.state = current_match_state(p, match_id, player_id)]

\* ----------------------------------------------------------- Move Ledger
\* SELECT COALESCE(MAX(ply), 0) FROM game_moves WHERE game_id = %s
MaxPlyOf(p, game_id) ==
    LET plies == {v.ply : v \in {w \in ViewMoves(p) : w.game_id = game_id}}
    IN  IF plies = {} THEN 0 ELSE CHOOSE n \in plies : \A m \in plies : m <= n

\* faulty variant: the ply check is missing
MoveAccepted_TurnOnly(player_color, ply, latest_ply) ==
    player_color = next_turn_for_ply(latest_ply)

\* faulty variant: the turn check is missing
MoveAccepted_PlyOnly(player_color, ply, latest_ply) ==
    ply = latest_ply + 1

\* the turn and ply checks of record_queue_match_move pass
MoveAccepted(player_color, ply, latest_ply) ==
    /\ player_color = next_turn_for_ply(latest_ply)
    /\ ply = latest_ply + 1

\* faulty variant: the participant check comes first
PreconditionFailure_ForbiddenFirst(match_row, player_color) ==
    IF player_color = "none" THEN "Forbidden"
    ELSE IF match_row.id = 0 THEN "NotFound"
    ELSE IF match_row.status # "active" THEN "Conflict"
    ELSE "none"

\* record_queue_match_move: the 404 of a missing match, the 409 of a match
\* that is not active, the 403 of a player outside the match, in this order
PreconditionFailure(match_row, player_color) ==
    IF match_row.id = 0 THEN "NotFound"
    ELSE IF match_row.status # "active" THEN "Conflict"
    ELSE IF player_color = "none" THEN "Forbidden"
    ELSE "none"

\* The match_id a client may send: a committed match or an id no row has (0)
MatchRequests == {m.id : m \in matches} \cup {0}

\* record_queue_match_move up to the INSERT: fetch_match_row ... FOR UPDATE,
\* the 404, 409 and 403, the MAX(ply) query, the turn and ply checks
record_queue_match_move(p) ==
    /\ pc[p] = "idle"
    /\ served < MaxRequests
    /\ \E match_id \in MatchRequests, player_id \in Players,
          ply \in 1..MaxPly, move_uci \in MoveTexts :
         LET match_row == fetch_match_row(p, match_id)
             player_color == color_for_player(match_row, player_id)
             latest_ply == MaxPlyOf(p, match_row.game_id)
         IN  /\ ~ MatchLockedByOther(p, match_row.id)
             /\ req' = [req EXCEPT ![p] =
                          [NoReq EXCEPT !.op = "submit_move",
                                        !.match_id = match_id,
                                        !.player_id = player_id,
                                        !.ply = ply,
                                        !.move_uci = move_uci]]
             /\ lockM' = [lockM EXCEPT ![p] =
                            IF match_row.id = 0 THEN {} ELSE {match_row.id}]
             /\ IF PreconditionFailure(match_row, player_color) # "none"
                THEN /\ resp' = [resp EXCEPT ![p] = ErrorResponse(
                                PreconditionFailure(match_row, player_color))]
                     /\ pc' = [pc EXCEPT ![p] = "rollback"]
                ELSE IF ~ MoveAccepted(player_color, ply, latest_ply)
                THEN /\ resp' = [resp EXCEPT ![p] =
                           build_conflict_detail(p, FALSE, match_id, player_id)]
                     /\ pc' = [pc EXCEPT ![p] = "rollback"]
                ELSE /\ pc' = [pc EXCEPT ![p] = "insert_move"]
                     /\ UNCHANGED resp
    /\ served' = served + 1
    /\ UNCHANGED <<now, dbVars, txNow, row, tw, mw, gw, vw, lockT, lastEnq>>

\* game_moves UNIQUE (game_id, ply): the INSERT finds a committed row
UniqueViolation(game_id, ply) ==
    \E v \in moves : v.game_id = game_id /\ v.ply = ply

\* record_queue_match_move, INSERT INTO game_moves and the handler of
\* psycopg.errors.UniqueViolation
insert_game_move(p) ==
    /\ pc[p] = "insert_move"
    /\ LET match_row == fetch_match_row(p, req[p].match_id)
           move_row == [game_id |-> match_row.game_id, ply |-> req[p].ply,
                        move_uci |-> req[p].move_uci,
                        player_id |-> req[p].player_id]
       IN  /\ ~ MoveLockedByOther(p, match_row.game_id, req[p].ply)
           /\ IF UniqueViolation(match_row.game_id, req[p].ply)
              THEN /\ resp' = [resp EXCEPT ![p] =
                         build_conflict_detail(p, TRUE, req[p].match_id,
                                               req[p].player_id)]
                   /\ pc' = [pc EXCEPT ![p] = "rollback"]
                   /\ UNCHANGED vw
              ELSE /\ vw' = [vw EXCEPT ![p] = {move_row}]
                   /\ resp' = [resp EXCEPT ![p] =
                         [NoResp EXCEPT !.kind = "Ok", !.move = move_row]]
                   /\ pc' = [pc EXCEPT ![p] = "commit"]
    /\ UNCHANGED <<now, dbVars, req, txNow, row, tw, mw, gw, lockT, lockM,
                   served, lastEnq>>

\* The game_id a client may send: a committed game or an id no row has (0)
GameRequests == games \cup {0}

\* ON CONFLICT (game_id, ply) DO UPDATE SET move_uci = EXCLUDED.move_uci
UpsertMove(p, game_id, ply, move_uci) ==
    IF \E v \in ViewMoves(p) : v.game_id = game_id /\ v.ply = ply
    THEN {[v EXCEPT !.move_uci = move_uci] :
            v \in {w \in ViewMoves(p) : w.game_id = game_id /\ w.ply = ply}}
    ELSE {[game_id |-> game_id, ply |-> ply, move_uci |-> move_uci,
           player_id |-> 0]}

\* save_game_move, called by record_game_move (POST /v1/games/{id}/moves);
\* a game_id that is not in games violates the foreign key: 503
save_game_move(p) ==
    /\ pc[p] = "idle"
    /\ served < MaxRequests
    /\ \E game_id \in GameRequests, ply \in 1..MaxPly, move_uci \in MoveTexts :
         /\ ~ MoveLockedByOther(p, game_id, ply)
         /\ req' = [req EXCEPT ![p] =
                      [NoReq EXCEPT !.op = "save_game_move",
                                    !.match_id = game_id,
                                    !.ply = ply, !.move_uci = move_uci]]
         /\ IF game_id \notin games
            THEN /\ resp' = [resp EXCEPT ![p] = ErrorResponse("Unavailable")]
                 /\ pc' = [pc EXCEPT ![p] = "rollback"]
                 /\ UNCHANGED vw
            ELSE LET record == UpsertMove(p, game_id, ply, move_uci)
                 IN  /\ vw' = [vw EXCEPT ![p] = record]
                     /\ resp' = [resp EXCEPT ![p] =
                           [NoResp EXCEPT !.kind = "Ok",
                                          !.move = CHOOSE v \in record : TRUE]]
                     /\ pc' = [pc EXCEPT ![p] = "commit"]
    /\ served' = served + 1
    /\ UNCHANGED <<now, dbVars, txNow, row, tw, mw, gw, lockT, lockM, lastEnq>>

\* get_match_state_record: current_match_state in a transaction of its own
get_match_state_record(p) ==
    /\ pc[p] = "idle"
    /\ served < MaxRequests
    /\ \E match_id \in MatchRequests, player_id \in Players \cup {0} :
         /\ req' = [req EXCEPT ![p] =
                      [NoReq EXCEPT !.op = "get_match_state",
                                    !.match_id = match_id,
                                    !.player_id = player_id]]
         /\ IF fetch_match_row(p, match_id).id = 0
            THEN /\ resp' = [resp EXCEPT ![p] = ErrorResponse("NotFound")]
                 /\ pc' = [pc EXCEPT ![p] = "rollback"]
            ELSE /\ resp' = [resp EXCEPT ![p] =
                       [NoResp EXCEPT
                          !.kind = "Ok",
                          !.state = current_match_state(p, match_id,
                                                        player_id)]]
                 /\ pc' = [pc EXCEPT ![p] = "commit"]
    /\ served' = served + 1
    /\ UNCHANGED <<now, dbVars, txNow, row, tw, mw, gw, vw, lockT, lockM,
                   lastEnq>>

\* faulty variant: the move at after_ply itself is returned again
RECURSIVE filtered_moves_Inclusive(_, _)
filtered_moves_Inclusive(move_list, after_ply) ==
    IF move_list = <<>> THEN <<>>
    ELSE IF Head(move_list).ply >= after_ply
         THEN <<Head(move_list)>>
                 \o filtered_moves_Inclusive(Tail(move_list), after_ply)
         ELSE filtered_moves_Inclusive(Tail(move_list), after_ply)

\* [move for move in match_state["moves"] if move["ply"] > after_ply]
RECURSIVE filtered_moves(_, _)
filtered_moves(move_list, after_ply) ==
    IF move_list = <<>> THEN <<>>
    ELSE IF Head(move_list).ply > after_ply
         THEN <<Head(move_list)>> \o filtered_moves(Tail(move_list), after_ply)
         ELSE filtered_moves(Tail(move_list), after_ply)

\* get_queue_match_moves: match_id, game_id, latest_ply and next_turn of the
\* full state, and the moves after after_ply
get_queue_match_moves(p) ==
    /\ pc[p] = "idle"
    /\ served < MaxRequests
    /\ \E match_id \in MatchRequests, after_ply \in 0..MaxPly :
         /\ req' = [req EXCEPT ![p] =
                      [NoReq EXCEPT !.op = "get_match_moves",
                                    !.match_id = match_id,
                                    !.ply = after_ply]]
         /\ IF fetch_match_row(p, match_id).id = 0
            THEN /\ resp' = [resp EXCEPT ![p] = ErrorResponse("NotFound")]
                 /\ pc' = [pc EXCEPT ![p] = "rollback"]
            ELSE LET match_state == current_match_state(p, match_id, 0)
                 IN  /\ resp' = [resp EXCEPT ![p] =
                           [NoResp EXCEPT
                              !.kind = "Ok",
                              !.state =
                                 [NoState EXCEPT
                                    !.match_id = match_state.match_id,
                                    !.game_id = match_state.game_id,
                                    !.latest_ply = match_state.latest_ply,
                                    !.next_turn = match_state.next_turn,
                                    !.moves = filtered_moves(
                                       match_state.moves, after_ply)]]]
                     /\ pc' = [pc EXCEPT ![p] = "commit"]
    /\ served' = served + 1
    /\ UNCHANGED <<now, dbVars, txNow, row, tw, mw, gw, vw, lockT, lockM,
                   lastEnq>>

\* create_game_record, called by create_game (POST /v1/games)
create_game_record(p) ==
    /\ pc[p] = "idle"
    /\ served < MaxRequests
    /\ Cardinality(UsedGameIds) < MaxGames
    /\ req' = [req EXCEPT ![p] = [NoReq EXCEPT !.op = "create_game"]]
    /\ gw' = [gw EXCEPT ![p] = {FreshId(UsedGameIds)}]
    /\ resp' = [resp EXCEPT ![p] = [NoResp EXCEPT !.kind = "Ok"]]
    /\ pc' = [pc EXCEPT ![p] = "commit"]
    /\ served' = served + 1
    /\ UNCHANGED <<now, dbVars, txNow, row, tw, mw, vw, lockT, lockM, lastEnq>>

\* ------------------------------------------------------------------ Next
Next ==
    \/ Tick
    \/ \E p \in Procs :
         \/ enqueue_player_for_matchmaking(p)
         \/ heartbeat_matchmaking_ticket(p)
         \/ expire_stale_tickets(p)
         \/ ensure_player_ticket_select(p)
         \/ ensure_player_ticket_insert(p)
         \/ ensure_player_ticket_reselect(p)
         \/ try_pair_ticket(p)
         \/ heartbeat_fetch_ticket_row(p)
         \/ get_matchmaking_ticket(p)
         \/ get_fetch_ticket_row(p)
         \/ cancel_matchmaking_ticket(p)
         \/ Commit(p)
         \/ Rollback(p)

Spec == Init /\ [][Next]_vars

\* ------------------------------------------------------- row-lock waits
\* The next statement of transaction p cannot run before transaction q ends:
\* the sweep has only rows locked by others left, a SELECT ... FOR UPDATE
\* (own ticket, heartbeat) names a row q has locked, the INSERT meets an
\* uncommitted index entry of q. The SKIP LOCKED scan never waits.
WaitsFor(p, q) ==
    /\ p # q
    /\ CASE pc[p] = "sweep" ->
               /\ StaleTickets(p) # {}
               /\ \A t \in StaleTickets(p) : TicketLockedByOther(p, t.id)
               /\ \E t \in StaleTickets(p) : t.id \in lockT[q]
         [] pc[p] \in {"select", "reselect"} ->
               \E t \in LatestCreated(ActiveTicketsOf(p, req[p].player_id)) :
                  t.id \in lockT[q]
         [] pc[p] = "hb_fetch" ->
               fetch_ticket_row(p, req[p].ticket_id, req[p].player_id).id
                  \in lockT[q]
         [] pc[p] = "insert" ->
               \E w \in tw[q] :
                  /\ w.player_id = req[p].player_id
                  /\ \/ w.status \in ACTIVE_TICKET_STATUSES
                     \/ \E t \in tickets :
                           t.id = w.id /\ t.status \in ACTIVE_TICKET_STATUSES
         [] OTHER -> FALSE

\* Postgres finds a cycle of waiting transactions after deadlock_timeout and
\* aborts one of them: the statement raises psycopg.errors.DeadlockDetected,
\* which no handler and no matchmaking endpoint catches
deadlock_detected(p) ==
    /\ \E q \in Procs : WaitsFor(p, q) /\ WaitsFor(q, p)
    /\ resp' = [resp EXCEPT ![p] = ErrorResponse("StorageError")]
    /\ pc' = [pc EXCEPT ![p] = "rollback"]
    /\ UNCHANGED <<now, dbVars, req, txNow, row, tw, mw, gw, vw, lockT, lockM,
                   served, lastEnq>>

\* --------------------------------------------------- two players waiting
\* The tickets after enqueue(1) and enqueue(2) ran at the same time at instant
\* 0 and neither saw the other (k = 0), and after enqueue(1) at instant 0
\* was followed at instant 1 by heartbeat(ticket 1) and enqueue(2) running at
\* the same time (k = 1): two queued tickets of two players
QueuedPair(k) ==
    {[id |-> 1, player_id |-> 1, status |-> "queued", heartbeat_at |-> k,
      expires_at |-> k + TICKET_TTL_SECONDS, match_id |-> 0, created_at |-> 0],
     [id |-> 2, player_id |-> 2, status |-> "queued", heartbeat_at |-> k,
      expires_at |-> k + TICKET_TTL_SECONDS, match_id |-> 0, created_at |-> k]}

PairingInit ==
    /\ \E k \in {0, 1} :
          /\ now = k
          /\ tickets = QueuedPair(k)
          /\ lastEnq = [pl \in Players |->
                          IF pl = 1 THEN [id |-> 1,
                                          expires_at |-> TICKET_TTL_SECONDS]
                          ELSE IF pl = 2
                          THEN [id |-> 2,
                                expires_at |-> k + TICKET_TTL_SECONDS]
                          ELSE NoLast]
    /\ matches = {}
    /\ games = {}
    /\ moves = {}
    /\ pc = [p \in Procs |-> "idle"]
    /\ req = [p \in Procs |-> NoReq]
    /\ txNow = [p \in Procs |-> 0]
    /\ row = [p \in Procs |-> NoTicket]
    /\ tw = [p \in Procs |-> {}]
    /\ mw = [p \in Procs |-> {}]
    /\ gw = [p \in Procs |-> {}]
    /\ vw = [p \in Procs |-> {}]
    /\ lockT = [p \in Procs |-> {}]
    /\ lockM = [p \in Procs |-> {}]
    /\ resp = [p \in Procs |-> NoResp]
    /\ served = 0

PairingNext ==
    \/ Next
    \/ \E p \in Procs : deadlock_detected(p)

PairingSpec == PairingInit /\ [][PairingNext]_vars

\* ------------------------------------------- two players keep waiting
\* The client of a waiting player polls POST /v1/matchmaking/{ticket_id}/
\* heartbeat with the ticket its enqueue returned, as often as it likes:
\* heartbeat_matchmaking_ticket begins its transaction
KeepAlive(p, player_id) ==
    /\ pc[p] = "idle"
    /\ lastEnq[player_id].id # 0
    /\ req' = [req EXCEPT ![p] =
                 [NoReq EXCEPT !.op = "heartbeat",
                               !.ticket_id = lastEnq[player_id].id,
                               !.player_id = player_id]]
    /\ begin_transaction(p, "heartbeat")
    /\ UNCHANGED <<now, dbVars, row, tw, mw, gw, vw, lockT, lockM, resp,
                   served, lastEnq>>

\* The clock moves on, and every queued ticket was refreshed in time: none
\* has its expires_at in the past at the new instant
TickBeforeExpiry ==
    /\ Tick
    /\ \A t \in tickets : t.status = "queued" => t.expires_at >= now'

HeartbeatNext ==
    \/ TickBeforeExpiry
    \/ \E p \in Procs :
         \/ \E player_id \in Players : KeepAlive(p, player_id)
         \/ heartbeat_fetch_ticket_row(p)
         \/ try_pair_ticket(p)
         \/ Commit(p)

\* Every statement of a transaction that can run does run, a transaction that
\* waits for a row lock gets it (Postgres queues the waiters of a lock), and
\* each of the two clients gets a heartbeat served again and again
HeartbeatFairness ==
    /\ \A p \in Procs :
          /\ SF_vars(heartbeat_fetch_ticket_row(p))
          /\ SF_vars(try_pair_ticket(p))
          /\ SF_vars(Commit(p))
    /\ \A player_id \in {1, 2} :
          SF_vars(\E p \in Procs : KeepAlive(p, player_id))

HeartbeatSpec ==
    PairingInit /\ [][HeartbeatNext]_vars /\ HeartbeatFairness

\* ---------------------------------------------------------------- ledger
\* The database after enqueue(1) and enqueue(2) at instant 0 have paired
\* the two players: the state in which the matched players start to move.
PairedTickets ==
    {[id |-> 1, player_id |-> 1, status |-> "matched", heartbeat_at |-> 0,
      expires_at |-> TICKET_TTL_SECONDS, match_id |-> 1, created_at |-> 0],
     [id |-> 2, player_id |-> 2, status |-> "matched", heartbeat_at |-> 0,
      expires_at |-> TICKET_TTL_SECONDS, match_id |-> 1, created_at |-> 0]}

PairedMatches ==
    {[id |-> 1, game_id |-> 1, white_player_id |-> 1, black_player_id |-> 2,
      status |-> "active"]}

LedgerInit ==
    /\ now = 0
    /\ tickets = PairedTickets
    /\ matches = PairedMatches
    /\ games = {1}
    /\ moves = {}
    /\ pc = [p \in Procs |-> "idle"]
    /\ req = [p \in Procs |-> NoReq]
    /\ txNow = [p \in Procs |-> 0]
    /\ row = [p \in Procs |-> NoTicket]
    /\ tw = [p \in Procs |-> {}]
    /\ mw = [p \in Procs |-> {}]
    /\ gw = [p \in Procs |-> {}]
    /\ vw = [p \in Procs |-> {}]
    /\ lockT = [p \in Procs |-> {}]
    /\ lockM = [p \in Procs |-> {}]
    /\ resp = [p \in Procs |-> NoResp]
    /\ served = 0
    /\ lastEnq = [pl \in Players |-> NoLast]

LedgerNext ==
    \E p \in Procs :
       \/ record_queue_match_move(p)
       \/ insert_game_move(p)
       \/ save_game_move(p)
       \/ create_game_record(p)
       \/ get_match_state_record(p)
       \/ get_queue_match_moves(p)
       \/ Commit(p)
       \/ Rollback(p)

LedgerSpec == LedgerInit /\ [][LedgerNext]_vars

\* ------------------------------------------------------ move validation
\* POST /v1/games/1/moves with ply 1 and any move_uci text has arrived at
\* process 1: the payload is about to be validated
UciInit ==
    /\ now = 0
    /\ tickets = PairedTickets
    /\ matches = PairedMatches
    /\ games = {1}
    /\ moves = {}
    /\ pc = [p \in Procs |-> IF p = 1 THEN "validate" ELSE "idle"]
    /\ \E value \in Texts(MaxLen) :
          req = [p \in Procs |->
                   IF p = 1
                   THEN [NoReq EXCEPT !.op = "save_game_move", !.match_id = 1,
                                      !.ply = 1, !.move_uci = value]
                   ELSE NoReq]
    /\ txNow = [p \in Procs |-> 0]
    /\ row = [p \in Procs |-> NoTicket]
    /\ tw = [p \in Procs |-> {}]
    /\ mw = [p \in Procs |-> {}]
    /\ gw = [p \in Procs |-> {}]
    /\ vw = [p \in Procs |-> {}]
    /\ lockT = [p \in Procs |-> {}]
    /\ lockM = [p \in Procs |-> {}]
    /\ resp = [p \in Procs |-> NoResp]
    /\ served = 1
    /\ lastEnq = [pl \in Players |-> NoLast]

\* record_game_move: the payload is validated as a GameMoveRequest (a
\* ValueError answers 422 before the endpoint's body runs), then
\* save_game_move stores the value the validator returned
record_game_move(p) ==
    /\ pc[p] = "validate"
    /\ LET payload == validate_uci_move(req[p].move_uci)
       IN  IF ~ payload.ok
           THEN /\ resp' = [resp EXCEPT ![p] = ErrorResponse("Invalid")]
                /\ pc' = [pc EXCEPT ![p] = "rollback"]
                /\ UNCHANGED vw
           ELSE LET record == UpsertMove(p, req[p].match_id, req[p].ply,
                                         payload.move)
                IN  /\ vw' = [vw EXCEPT ![p] = record]
                    /\ resp' = [resp EXCEPT ![p] =
                          [NoResp EXCEPT !.kind = "Ok",
                                         !.move = CHOOSE v \in record : TRUE]]
                    /\ pc' = [pc EXCEPT ![p] = "commit"]
    /\ UNCHANGED <<now, dbVars, req, txNow, row, tw, mw, gw, lockT, lockM,
                   served, lastEnq>>

UciNext ==
    \E p \in Procs :
       \/ record_game_move(p)
       \/ Commit(p)
       \/ Rollback(p)

UciSpec == UciInit /\ [][UciNext]_vars

\* ---------------------------------------------------------- store outage
\* The operations behind the endpoints of main.py
Operations ==
    {"enqueue", "heartbeat", "get_ticket", "cancel", "get_match_state",
     "submit_move", "get_match_moves", "create_game", "save_game_move"}

\* The endpoints whose body is `try: ... except Exception as exc: raise
\* HTTPException(status_code=503, ...)`: create_game and record_game_move.
\* The matchmaking and match endpoints return the handler's result directly.
EndpointMapsStoreError(op) == op \in {"create_game", "save_game_move"}

\* What the client gets when a psycopg error leaves the handler: the 503 of
\* the endpoint's except clause, or the exception itself (an unhandled
\* error of the application, status 500)
store_error_response(op) ==
    ErrorResponse(IF EndpointMapsStoreError(op)
                  THEN "Unavailable" ELSE "StorageError")

\* connect_postgres raises (psycopg.connect cannot reach the server within
\* connect_timeout): the handler ends before its first statement
connect_postgres_fails(p) ==
    /\ pc[p] = "idle"
    /\ served < MaxRequests
    /\ \E op \in Operations :
          /\ req' = [req EXCEPT ![p] = [NoReq EXCEPT !.op = op]]
          /\ resp' = [resp EXCEPT ![p] = store_error_response(op)]
    /\ pc' = [pc EXCEPT ![p] = "rollback"]
    /\ served' = served + 1
    /\ UNCHANGED <<now, dbVars, txNow, row, tw, mw, gw, vw, lockT, lockM,
                   lastEnq>>

\* The server while Postgres is unreachable: every request fails to connect
OutageNext ==
    \/ Tick
    \/ \E p \in Procs :
          \/ connect_postgres_fails(p)
          \/ Rollback(p)

OutageSpec == LedgerInit /\ [][OutageNext]_vars

\* ================================================================ claims
CommittedTicket(id) ==
    IF \E t \in tickets : t.id = id
    THEN CHOOSE t \in tickets : t.id = id ELSE NoTicket

\* C1: in every reachable state no player has two tickets whose status is
\* queued or matched.
C1_OneActiveTicketPerPlayer ==
    \A a \in tickets : \A b \in tickets :
        ( /\ a.player_id = b.player_id
          /\ a.status \in {"queued", "matched"}
          /\ b.status \in {"queued", "matched"} ) => a.id = b.id

\* C1 witness: an enqueue whose INSERT was stopped by the unique index, the
\* player's queued ticket having been committed by a concurrent enqueue.
C1_Witness ==
    \E p \in Procs :
        /\ pc[p] = "reselect"
        /\ \E t \in tickets :
              t.player_id = req[p].player_id /\ t.status = "queued"

AllMatches == matches \cup UNION {mw[q] : q \in Procs}

\* C5: every match created by pairing, committed or not yet, has different
\* white and black players, and no pairing attempt ever reaches the CHECK
\* of the matches table with the same player twice.
C5_NoSelfPairing ==
    /\ \A m \in AllMatches : m.white_player_id # m.black_player_id
    /\ \A p \in Procs :
          req[p].op \in {"enqueue", "heartbeat"}
             => resp[p].kind # "StorageError"

\* C5 witness: a committed match whose two players hold the matched tickets.
C5_Witness ==
    \E m \in matches : \E a \in tickets : \E b \in tickets :
        /\ a.match_id = m.id /\ b.match_id = m.id
        /\ a.player_id = m.white_player_id
        /\ b.player_id = m.black_player_id

AllTickets == tickets \cup UNION {tw[q] : q \in Procs}

\* The ticket submitted to try_pair_ticket by the pairing p has pending
PairTrigger(p) == row[p]

\* The candidate of the pairing p has pending
PairCandidate(p) ==
    {t \in tw[p] : t.id # row[p].id /\ t.match_id \in {m.id : m \in mw[p]}}

\* C6 as stated: whenever tickets A and B with A.created_at <= B.created_at
\* (equality included) are attached to the same match, white is A's player
\* and black is B's player.
C6_OlderOrEqualIsWhite ==
    \A m \in AllMatches : \A a \in AllTickets : \A b \in AllTickets :
        ( /\ a.match_id = m.id /\ b.match_id = m.id /\ a.id # b.id
          /\ a.created_at <= b.created_at )
        => (m.white_player_id = a.player_id /\ m.black_player_id = b.player_id)

\* C6 amended: when the two tickets of a match were created at different
\* times the player of the older one is white and the other is black,
\* whichever triggered the pairing; when they were created at the same time
\* the candidate found by the pairing is white and the ticket that triggered
\* the pairing is black.
C6_OlderIsWhiteTieCandidate ==
    /\ \A m \in AllMatches : \A a \in AllTickets : \A b \in AllTickets :
          ( /\ a.match_id = m.id /\ b.match_id = m.id
            /\ a.created_at < b.created_at )
          => ( /\ m.white_player_id = a.player_id
               /\ m.black_player_id = b.player_id )
    /\ \A p \in Procs : \A m \in mw[p] : \A other \in PairCandidate(p) :
          other.created_at = PairTrigger(p).created_at
          => ( /\ m.white_player_id = other.player_id
               /\ m.black_player_id = PairTrigger(p).player_id )

\* C6 witness: a pairing of two tickets created at the same instant is
\* pending, the candidate's player being white.
C6_Witness ==
    \E p \in Procs : \E m \in mw[p] : \E other \in PairCandidate(p) :
        /\ pc[p] = "commit"
        /\ other.created_at = PairTrigger(p).created_at
        /\ m.white_player_id = other.player_id
        /\ PairTrigger(p).match_id = m.id

\* The tickets a pending pairing of p has attached to its new match
PairClaims(p) ==
    {t.id : t \in {u \in tw[p] : u.match_id \in {m.id : m \in mw[p]}}}

C7_NoSharedClaim ==
    \A p \in Procs : \A q \in Procs \ {p} : PairClaims(p) \cap PairClaims(q) = {}

C7_TwoTicketsPerMatch ==
    \A m \in matches :
        Cardinality({t \in tickets : t.match_id = m.id}) = 2

C7_NoRepair ==
    \A t \in tickets :
        t.match_id # 0
        => \E u \in tickets' :
              u.id = t.id /\ u.match_id = t.match_id /\ u.status = "matched"

C7_PairsOnlyQueued ==
    \A p \in Procs :
        (mw'[p] # mw[p] /\ mw'[p] # {})
        => \A t \in tw'[p] :
              t.match_id \in {m.id : m \in mw'[p]}
              => /\ \E u \in ViewTickets(p) :
                       u.id = t.id /\ u.status = "queued" /\ u.match_id = 0
                 /\ \A u \in tickets : u.id = t.id => u.status = "queued"

\* C7: under any interleaving of enqueue and heartbeat transactions a ticket
\* is attached to at most one match: no two pending pairings claim the same
\* ticket, a committed match is referenced by exactly its two tickets, a
\* pairing attaches only tickets that were queued with no match, and a ticket
\* that has a match keeps that match and its matched status for ever.
C7_AtMostOneMatch ==
    [][ /\ C7_NoSharedClaim'
        /\ C7_TwoTicketsPerMatch'
        /\ C7_NoRepair
        /\ C7_PairsOnlyQueued ]_vars

\* C7 witness: a pairing attempt is about to scan the candidates while
\* another transaction's pending pairing holds a committed queued ticket of
\* a third player.
C7_Witness ==
    \E p \in Procs : \E q \in Procs \ {p} : \E t \in tickets :
        /\ pc[p] = "pair"
        /\ row[p].status = "queued"
        /\ t.status = "queued"
        /\ t.id \in PairClaims(q)
        /\ t.player_id # row[p].player_id

\* C4 as stated: an enqueue(P) that follows an enqueue(P) whose ticket was
\* not paired in between returns the same ticket id and an expires_at that
\* is not smaller.
C4_SameTicketUnlessPaired ==
    \A p \in Procs :
        LET last == lastEnq[req[p].player_id]
        IN  ( /\ pc[p] = "commit"
              /\ req[p].op = "enqueue"
              /\ last.id # 0
              /\ CommittedTicket(last.id).status # "matched" )
            => ( /\ resp[p].ticket.id = last.id
                 /\ resp[p].ticket.expires_at >= last.expires_at )

\* C4 amended: an enqueue(P) that follows an enqueue(P) whose ticket is
\* still queued and whose expires_at has not passed when the call begins
\* (so it was neither paired, nor cancelled, nor expired, the sweep of the
\* call itself included) returns the same ticket id and an expires_at that
\* is not smaller.
C4_SameTicketWhileQueued ==
    \A p \in Procs :
        LET last == lastEnq[req[p].player_id]
        IN  ( /\ pc[p] = "commit"
              /\ req[p].op = "enqueue"
              /\ last.id # 0
              /\ CommittedTicket(last.id).status = "queued"
              /\ CommittedTicket(last.id).expires_at >= txNow[p] )
            => ( /\ resp[p].ticket.id = last.id
                 /\ resp[p].ticket.expires_at >= last.expires_at )

\* C4 witness: a later enqueue of the same player returns the ticket of the
\* earlier one with a larger expires_at.
C4_Witness ==
    \E p \in Procs :
        LET last == lastEnq[req[p].player_id]
        IN  /\ pc[p] = "commit"
            /\ req[p].op = "enqueue"
            /\ last.id # 0
            /\ resp[p].ticket.id = last.id
            /\ resp[p].ticket.expires_at > last.expires_at

\* C10: a cancel of a ticket whose status is matched, by its owner, ends
\* with Conflict, writes nothing, and the end of its transaction leaves
\* every ticket, match, game and move as it was.
C10_CancelMatchedRejected ==
    [][ \A p \in Procs :
          /\ ( /\ pc[p] = "idle"
               /\ req'[p].op = "cancel"
               /\ CommittedTicket(req'[p].ticket_id).status = "matched"
               /\ CommittedTicket(req'[p].ticket_id).player_id
                     = req'[p].player_id )
             => ( /\ resp'[p].kind = "Conflict"
                  /\ pc'[p] = "rollback"
                  /\ tw'[p] = {} /\ mw'[p] = {}
                  /\ UNCHANGED dbVars )
          /\ ( /\ req[p].op = "cancel"
               /\ resp[p].kind = "Conflict"
               /\ pc'[p] # pc[p] )
             => ( /\ pc'[p] = "idle"
                  /\ UNCHANGED dbVars ) ]_vars

\* C10 witness: a cancel of a matched ticket has been answered with Conflict.
C10_Witness ==
    \E p \in Procs :
        /\ req[p].op = "cancel"
        /\ resp[p].kind = "Conflict"
        /\ CommittedTicket(req[p].ticket_id).status = "matched"

\* ------------------------------------------------------- ledger claims
CommittedMatch(id) ==
    IF \E m \in matches : m.id = id
    THEN CHOOSE m \in matches : m.id = id ELSE NoMatch

RecordedPlies(game_id) == {v.ply : v \in {w \in moves : w.game_id = game_id}}

HighestRecordedPly(game_id) ==
    IF RecordedPlies(game_id) = {} THEN 0
    ELSE CHOOSE n \in RecordedPlies(game_id) :
            \A k \in RecordedPlies(game_id) : k <= n

\* white when latest_ply is even, black when it is odd
ExpectedTurn(latest_ply) == IF latest_ply % 2 = 0 THEN "white" ELSE "black"

ParticipantColor(match_row, player_id) ==
    IF player_id = match_row.white_player_id THEN "white"
    ELSE IF player_id = match_row.black_player_id THEN "black" ELSE "none"

\* The state carried by a response is the projection of the committed ledger
CarriesCurrentState(response, match_row) ==
    /\ response.state.match_id = match_row.id
    /\ response.state.latest_ply = HighestRecordedPly(match_row.game_id)
    /\ response.state.next_turn
          = ExpectedTurn(HighestRecordedPly(match_row.game_id))
    /\ Len(response.state.moves)
          = Cardinality(RecordedPlies(match_row.game_id))
    /\ \A i \in 1..Len(response.state.moves) :
          /\ \E v \in moves :
                /\ v.game_id = match_row.game_id
                /\ v.ply = response.state.moves[i].ply
                /\ v.move_uci = response.state.moves[i].move_uci
                /\ v.player_id = response.state.moves[i].player_id
          /\ i > 1 => response.state.moves[i - 1].ply
                         < response.state.moves[i].ply

\* C2: for every game the recorded plies are exactly 1..latest_ply, after
\* any sequence of submit_move and save_game_move.
C2_PliesContiguous ==
    \A game_id \in games :
        RecordedPlies(game_id) = 1..HighestRecordedPly(game_id)

\* C3: a submit_move of a participant of an active match whose colour is not
\* the expected turn, or whose ply is not latest_ply + 1, is answered with
\* Conflict, writes no move, and its transaction ends leaving the ledger as
\* it was.
C3_WrongTurnOrPlyRejected ==
    [][ \A p \in Procs :
          LET match_row == CommittedMatch(req'[p].match_id)
              latest_ply == HighestRecordedPly(match_row.game_id)
              colour == ParticipantColor(match_row, req'[p].player_id)
          IN  /\ ( /\ pc[p] = "idle"
                   /\ req'[p].op = "submit_move"
                   /\ match_row.id # 0
                   /\ match_row.status = "active"
                   /\ colour # "none"
                   /\ \/ colour # ExpectedTurn(latest_ply)
                      \/ req'[p].ply # latest_ply + 1 )
                 => ( /\ resp'[p].kind = "Conflict"
                      /\ pc'[p] = "rollback"
                      /\ vw'[p] = {}
                      /\ moves' = moves )
              /\ ( /\ req[p].op = "submit_move"
                   /\ resp[p].kind = "Conflict"
                   /\ pc'[p] # pc[p] )
                 => ( /\ pc'[p] = "idle"
                      /\ moves' = moves ) ]_vars

\* C3 witness: a submit_move on a game that has moves was answered with
\* Conflict.
C3_Witness ==
    \E p \in Procs :
        /\ req[p].op = "submit_move"
        /\ resp[p].kind = "Conflict"
        /\ pc[p] = "rollback"
        /\ HighestRecordedPly(CommittedMatch(req[p].match_id).game_id) >= 1

\* C8: every submit_move that is refused for a wrong turn, a wrong ply, a
\* ply already recorded when the move is written, or a match that is not
\* active, is answered with Conflict, and the answer carries the projected
\* state of that moment: latest_ply is the highest recorded ply, next_turn
\* follows the parity rule, moves is the full ledger in ply order.
C8_ConflictCarriesState ==
    [][ \A p \in Procs :
          ( /\ req'[p].op = "submit_move"
            /\ pc[p] \in {"idle", "insert_move"}
            /\ pc'[p] = "rollback"
            /\ resp'[p].kind \notin {"NotFound", "Forbidden"} )
          => ( /\ resp'[p].kind = "Conflict"
               /\ CarriesCurrentState(resp'[p],
                     CommittedMatch(req'[p].match_id)) ) ]_vars

\* C9: when the INSERT of submit_move finds the ply recorded by another
\* writer after the pre-check, the caller receives a Conflict with the
\* current projected state, never a storage error, and the recorded move is
\* kept.
C9_WriteTimeDuplicateIsConflict ==
    [][ \A p \in Procs :
          LET match_row == CommittedMatch(req[p].match_id)
          IN  ( /\ pc[p] = "insert_move"
                /\ pc'[p] # "insert_move"
                /\ req[p].ply \in RecordedPlies(match_row.game_id) )
              => ( /\ resp'[p].kind = "Conflict"
                   /\ resp'[p].kind # "StorageError"
                   /\ resp'[p].state.latest_ply
                         = HighestRecordedPly(match_row.game_id)
                   /\ moves' = moves ) ]_vars

\* ------------------------------------------------- ticket lifecycle claims
TicketOperations == {"enqueue", "heartbeat", "get_ticket", "cancel"}

\* The row of ticket id that transaction p sees, NoTicket if it sees none
SeenTicket(p, id) ==
    IF \E t \in ViewTickets(p) : t.id = id
    THEN CHOOSE t \in ViewTickets(p) : t.id = id ELSE NoTicket

\* C11: every operation that touches tickets (enqueue, heartbeat, get
\* ticket, cancel) begins by moving every queued ticket whose expires_at has
\* passed to expired in its own transaction, and a ticket it returns that
\* was queued with expires_at in the past is returned as expired: once the
\* operation is past its first statement, its transaction sees no queued
\* ticket whose expires_at has passed and returns none.
C11_EveryTicketOperationSweeps ==
    \A p \in Procs :
        ( /\ req[p].op \in TicketOperations
          /\ pc[p] \notin {"idle", "sweep"} )
        => /\ \A t \in ViewTickets(p) :
                 ~ (t.status = "queued" /\ t.expires_at < now)
           /\ resp[p].kind = "Ok"
                 => ~ ( /\ resp[p].ticket.status = "queued"
                        /\ resp[p].ticket.expires_at < now )

\* C12: a ticket's status becomes cancelled only in a cancel call of its
\* owner and only from queued: no step, pending or committed, takes a ticket
\* from expired, cancelled or matched to cancelled.
C12_CancelledOnlyFromQueued ==
    [][ /\ \A p \in Procs : \A u \in tw'[p] :
             ( /\ u.status = "cancelled"
               /\ SeenTicket(p, u.id).id # 0
               /\ SeenTicket(p, u.id).status # "cancelled" )
             => ( /\ SeenTicket(p, u.id).status = "queued"
                  /\ req'[p].op = "cancel"
                  /\ req'[p].player_id = u.player_id )
        /\ \A t \in tickets : \A u \in tickets' :
             ( /\ u.id = t.id
               /\ u.status = "cancelled"
               /\ t.status # "cancelled" )
             => t.status = "queued" ]_vars

\* C13: a ticket's status becomes matched only in a pairing step and only
\* from queued, becomes expired only from queued with expires_at in the
\* past, and a matched ticket never changes status; for the writes a
\* transaction has pending and for the committed rows.
C13_MatchedAndExpiredOnlyFromQueued ==
    [][ /\ \A p \in Procs : \A u \in tw'[p] :
             LET prev == SeenTicket(p, u.id)
             IN  (prev.id # 0 /\ prev.status # u.status)
                 => /\ prev.status # "matched"
                    /\ u.status = "matched"
                          => (pc[p] = "pair" /\ prev.status = "queued")
                    /\ u.status = "expired"
                          => (prev.status = "queued" /\ prev.expires_at < now)
        /\ \A t \in tickets : \A u \in tickets' :
             (u.id = t.id /\ u.status # t.status)
             => /\ t.status # "matched"
                /\ u.status = "matched"
                      => /\ t.status = "queued"
                         /\ \E p \in Procs :
                               /\ pc[p] = "commit"
                               /\ u.match_id \in {m.id : m \in mw[p]}
                /\ u.status = "expired"
                      => (t.status = "queued" /\ t.expires_at < now) ]_vars

\* C13 witness: a sweep has run after the expires_at of a committed matched
\* ticket, which is still matched.
C13_Witness ==
    \E p \in Procs : \E t \in tickets :
        /\ t.status = "matched"
        /\ req[p].op \in {"enqueue", "heartbeat", "get_ticket"}
        /\ pc[p] # "idle"
        /\ txNow[p] > t.expires_at

\* C14: a ticket, committed or pending, has a match_id exactly when its
\* status is matched, every matched ticket references an existing match in
\* which its player is white or black, and a ticket response carries a
\* colour exactly when its ticket is matched.
C14_MatchIdIffMatched ==
    /\ \A t \in tickets :
          /\ t.match_id # 0 <=> t.status = "matched"
          /\ t.status = "matched"
                => \E m \in matches :
                      /\ m.id = t.match_id
                      /\ t.player_id \in {m.white_player_id, m.black_player_id}
    /\ \A p \in Procs : \A t \in tw[p] :
          /\ t.match_id # 0 <=> t.status = "matched"
          /\ t.status = "matched"
                => \E m \in ViewMatches(p) :
                      /\ m.id = t.match_id
                      /\ t.player_id \in {m.white_player_id, m.black_player_id}
    /\ \A p \in Procs :
          resp[p].kind = "Ok" /\ resp[p].ticket.id # 0
          => /\ resp[p].ticket.match_id # 0 <=> resp[p].ticket.status = "matched"
             /\ resp[p].assigned_color # "none"
                   <=> resp[p].ticket.status = "matched"

\* C14 witness: a get of a committed matched ticket answers with the match
\* and the colour of its player, and a ticket that is not matched exists.
C14_Witness ==
    \E p \in Procs : \E t \in tickets : \E m \in matches :
        /\ req[p].op = "get_ticket"
        /\ resp[p].kind = "Ok"
        /\ resp[p].ticket = t
        /\ t.status = "matched"
        /\ t.match_id = m.id
        /\ resp[p].assigned_color = color_for_player(m, t.player_id)

\* C18: an enqueue of a player who holds a committed matched ticket returns
\* that ticket, leaves its row as it is (id, heartbeat_at, expires_at,
\* status, match_id), and has no new ticket, match or game pending.
C18_EnqueueKeepsMatchedTicket ==
    \A p \in Procs : \A t \in tickets :
        ( /\ pc[p] = "commit"
          /\ req[p].op = "enqueue"
          /\ t.player_id = req[p].player_id
          /\ t.status = "matched" )
        => ( /\ resp[p].kind = "Ok"
             /\ resp[p].ticket = t
             /\ SeenTicket(p, t.id) = t
             /\ TicketIds(tw[p]) \subseteq TicketIds(tickets) \ {t.id}
             /\ mw[p] = {}
             /\ gw[p] = {} )

\* C18 witness: an enqueue made after the heartbeat_at of the player's
\* matched ticket has returned that ticket.
C18_Witness ==
    \E p \in Procs : \E t \in tickets :
        /\ pc[p] = "commit"
        /\ req[p].op = "enqueue"
        /\ t.player_id = req[p].player_id
        /\ t.status = "matched"
        /\ resp[p].ticket = t
        /\ txNow[p] > t.heartbeat_at

\* The ticket a heartbeat request names, as its transaction sees it
HeartbeatTicket(p) ==
    IF SeenTicket(p, req[p].ticket_id).player_id = req[p].player_id
    THEN SeenTicket(p, req[p].ticket_id) ELSE NoTicket

\* C19: a heartbeat on a ticket that is cancelled or expired, the sweep of
\* the same call included, returns the ticket as it is, writes nothing to it
\* (heartbeat_at, expires_at and match_id stay those of the committed row),
\* attempts no pairing, and its commit leaves the ticket as returned.
C19_HeartbeatOfDeadTicketIsNoop ==
    [][ \A p \in Procs :
          /\ ( /\ pc[p] = "hb_fetch"
               /\ pc'[p] # "hb_fetch"
               /\ HeartbeatTicket(p).id # 0
               /\ HeartbeatTicket(p).status \in {"cancelled", "expired"} )
             => ( /\ resp'[p].kind = "Ok"
                  /\ resp'[p].ticket = HeartbeatTicket(p)
                  /\ resp'[p].ticket.heartbeat_at
                        = CommittedTicket(req[p].ticket_id).heartbeat_at
                  /\ resp'[p].ticket.expires_at
                        = CommittedTicket(req[p].ticket_id).expires_at
                  /\ resp'[p].ticket.match_id
                        = CommittedTicket(req[p].ticket_id).match_id
                  /\ tw'[p] = tw[p]
                  /\ mw'[p] = {}
                  /\ pc'[p] = "commit" )
          /\ ( /\ pc[p] = "commit"
               /\ pc'[p] = "idle"
               /\ req[p].op = "heartbeat"
               /\ resp[p].ticket.status \in {"cancelled", "expired"} )
             => ( /\ resp[p].ticket \in tickets'
                  /\ matches' = matches ) ]_vars

\* C19 witness: a heartbeat has returned, as expired, the ticket its own
\* sweep has just expired.
C19_Witness ==
    \E p \in Procs :
        /\ pc[p] = "commit"
        /\ req[p].op = "heartbeat"
        /\ resp[p].ticket.status = "expired"
        /\ CommittedTicket(resp[p].ticket.id).status = "queued"

\* The move a submit_move request of p asks to record
RequestedMove(p) ==
    [game_id |-> CommittedMatch(req[p].match_id).game_id,
     ply |-> req[p].ply,
     move_uci |-> req[p].move_uci,
     player_id |-> req[p].player_id]

OtherColor(color) == IF color = "white" THEN "black" ELSE "white"

\* C15: in an active match whose latest_ply is n, a submit_move of the
\* player whose colour is the expected turn, with ply n + 1, passes the
\* checks, writes exactly that move, and its commit adds that one move:
\* latest_ply becomes n + 1, next_turn the other colour, and every earlier
\* move is as it was.
C15_ExpectedMoveIsAppended ==
    [][ \A p \in Procs :
          /\ LET match_row == CommittedMatch(req'[p].match_id)
                 n == HighestRecordedPly(match_row.game_id)
             IN  ( /\ pc[p] = "idle"
                   /\ req'[p].op = "submit_move"
                   /\ match_row.id # 0
                   /\ match_row.status = "active"
                   /\ ParticipantColor(match_row, req'[p].player_id)
                         = ExpectedTurn(n)
                   /\ req'[p].ply = n + 1 )
                 => ( /\ pc'[p] = "insert_move"
                      /\ resp'[p].kind = "none" )
          /\ LET game_id == CommittedMatch(req[p].match_id).game_id
                 n == HighestRecordedPly(game_id)
             IN  /\ ( /\ pc[p] = "insert_move"
                      /\ pc'[p] # "insert_move"
                      /\ req[p].ply = n + 1 )
                    => ( /\ pc'[p] = "commit"
                         /\ resp'[p].kind = "Ok"
                         /\ resp'[p].move = RequestedMove(p)
                         /\ vw'[p] = {RequestedMove(p)} )
                 /\ ( /\ pc[p] = "commit"
                      /\ pc'[p] = "idle"
                      /\ req[p].op = "submit_move"
                      /\ req[p].ply = n + 1 )
                    => ( /\ moves' = moves \cup {RequestedMove(p)}
                         /\ RequestedMove(p) \notin moves
                         /\ \A v \in moves' :
                               v.game_id = game_id => v.ply <= n + 1
                         /\ \E v \in moves' :
                               v.game_id = game_id /\ v.ply = n + 1
                         /\ ExpectedTurn(n + 1) = OtherColor(ExpectedTurn(n))
                         /\ ExpectedTurn(n + 1)
                               # ParticipantColor(
                                    CommittedMatch(req[p].match_id),
                                    req[p].player_id) ) ]_vars

\* C15 witness: black's move of ply 2 is about to be committed after white's
\* move of ply 1.
C15_Witness ==
    \E p \in Procs :
        /\ pc[p] = "commit"
        /\ req[p].op = "submit_move"
        /\ req[p].ply = 2
        /\ vw[p] = {RequestedMove(p)}
        /\ ParticipantColor(CommittedMatch(req[p].match_id), req[p].player_id)
              = "black"
        /\ HighestRecordedPly(CommittedMatch(req[p].match_id).game_id) = 1

StateOperations == {"get_match_state", "get_match_moves", "submit_move"}

\* C16: every projected state (the result of get_match_state, the state in
\* a Conflict of submit_move) and every get_moves result has latest_ply equal
\* to the ply of the last recorded move of the game when it is read, 0 when
\* there is none, and next_turn white for an even latest_ply and black for
\* an odd one.
C16_LatestPlyAndNextTurn ==
    [][ \A p \in Procs :
          ( /\ pc[p] = "idle"
            /\ req'[p].op \in StateOperations
            /\ resp'[p].kind \in {"Ok", "Conflict"} )
          => LET game_id == CommittedMatch(req'[p].match_id).game_id
             IN  /\ resp'[p].state.match_id = req'[p].match_id
                 /\ resp'[p].state.latest_ply = HighestRecordedPly(game_id)
                 /\ (RecordedPlies(game_id) = {}
                        => resp'[p].state.latest_ply = 0)
                 /\ resp'[p].state.next_turn
                       = ExpectedTurn(resp'[p].state.latest_ply) ]_vars

\* C16 witness: a get_moves whose after_ply leaves no move to return reports
\* the latest_ply of a ledger that has moves.
C16_Witness ==
    \E p \in Procs :
        /\ req[p].op = "get_match_moves"
        /\ resp[p].kind = "Ok"
        /\ resp[p].state.moves = <<>>
        /\ resp[p].state.latest_ply >= 1
        /\ resp[p].state.next_turn = ExpectedTurn(resp[p].state.latest_ply)

\* C17: a move recorded for (game_id, ply) is never removed and its move
\* text and player never change, whatever submit_move or save_game_move
\* follows.
C17_RecordedMovesImmutable ==
    [][ \A v \in moves : v \in moves' ]_vars

\* C20: submit_move reports NotFound for a match that does not exist, else
\* Conflict for a match that is not active, else Forbidden for a player who
\* is neither white nor black, whatever the ply; only a participant of an
\* existing active match reaches the turn and ply checks; none of these
\* failures writes a move, and their rollback leaves the ledger as it was.
C20_PreconditionOrder ==
    [][ \A p \in Procs :
          LET match_row == CommittedMatch(req'[p].match_id)
              colour == ParticipantColor(match_row, req'[p].player_id)
              refused == /\ resp'[p].state = NoState
                         /\ pc'[p] = "rollback"
                         /\ vw'[p] = {}
                         /\ moves' = moves
          IN  /\ ( pc[p] = "idle" /\ req'[p].op = "submit_move" )
                 => /\ match_row.id = 0
                       => (resp'[p].kind = "NotFound" /\ refused)
                    /\ (match_row.id # 0 /\ match_row.status # "active")
                       => (resp'[p].kind = "Conflict" /\ refused)
                    /\ ( /\ match_row.id # 0
                         /\ match_row.status = "active"
                         /\ colour = "none" )
                       => (resp'[p].kind = "Forbidden" /\ refused)
                    /\ (pc'[p] = "insert_move" \/ resp'[p].state # NoState)
                       => ( /\ match_row.id # 0
                            /\ match_row.status = "active"
                            /\ colour # "none" )
              /\ ( /\ req[p].op = "submit_move"
                   /\ resp[p].kind \in {"NotFound", "Forbidden"}
                   /\ pc'[p] # pc[p] )
                 => (pc'[p] = "idle" /\ moves' = moves) ]_vars

\* C20 witness: a player outside the match sent a ply that is not the next
\* one and was answered Forbidden.
C20_Witness ==
    \E p \in Procs :
        /\ req[p].op = "submit_move"
        /\ resp[p].kind = "Forbidden"
        /\ CommittedMatch(req[p].match_id).id # 0
        /\ req[p].ply
              # HighestRecordedPly(CommittedMatch(req[p].match_id).game_id) + 1

\* C21: get_moves(match_id, after_ply) returns exactly the recorded moves of
\* the match's game whose ply is greater than after_ply, in ascending ply
\* order, with latest_ply and next_turn taken from the whole ledger and not
\* from the returned tail, and it writes nothing: no row is pending when it
\* answers and its commit leaves tickets, matches, games and moves as they
\* were.
C21_GetMovesReturnsTail ==
    [][ \A p \in Procs :
          /\ ( /\ pc[p] = "idle"
               /\ req'[p].op = "get_match_moves"
               /\ resp'[p].kind = "Ok" )
             => LET game_id == CommittedMatch(req'[p].match_id).game_id
                    tail == {v \in moves :
                               v.game_id = game_id /\ v.ply > req'[p].ply}
                    returned == resp'[p].state.moves
                IN  /\ resp'[p].state.game_id = game_id
                    /\ Len(returned) = Cardinality(tail)
                    /\ \A i \in 1..Len(returned) :
                          /\ \E v \in tail :
                                /\ v.ply = returned[i].ply
                                /\ v.move_uci = returned[i].move_uci
                                /\ v.player_id = returned[i].player_id
                          /\ returned[i].match_id = req'[p].match_id
                          /\ i > 1 => returned[i - 1].ply < returned[i].ply
                    /\ resp'[p].state.latest_ply = HighestRecordedPly(game_id)
                    /\ resp'[p].state.next_turn
                          = ExpectedTurn(HighestRecordedPly(game_id))
                    /\ tw'[p] = {} /\ mw'[p] = {} /\ gw'[p] = {}
                    /\ vw'[p] = {}
                    /\ UNCHANGED dbVars
          /\ ( /\ req[p].op = "get_match_moves"
               /\ pc[p] # "idle"
               /\ pc'[p] = "idle" )
             => UNCHANGED dbVars ]_vars

\* C21 witness: a ledger with plies 1 and 2 is read with after_ply = 1: one
\* move comes back, the one at ply 2, and latest_ply is 2.
C21_Witness ==
    \E p \in Procs :
        /\ req[p].op = "get_match_moves"
        /\ req[p].ply = 1
        /\ resp[p].kind = "Ok"
        /\ Len(resp[p].state.moves) = 1
        /\ resp[p].state.moves[1].ply = 2
        /\ resp[p].state.latest_ply = 2
        /\ Cardinality(RecordedPlies(resp[p].state.game_id)) = 2

\* C22: for every operation (enqueue, heartbeat, get ticket, cancel, get
\* match state, submit move, get moves) a failure of the store that is not a
\* uniqueness violation is reported as Unavailable, never as another outcome.
\* Stated for the failure to connect: the request of such an operation that
\* ends because the store cannot be reached answers Unavailable.
C22_StoreFailureIsUnavailable ==
    \A p \in Procs :
        ( /\ pc[p] = "rollback"
          /\ req[p].op \in
               {"enqueue", "heartbeat", "get_ticket", "cancel",
                "get_match_state", "submit_move", "get_match_moves"} )
        => resp[p].kind = "Unavailable"

\* the text without its leading and trailing whitespace
Trimmed(text) ==
    LET inner == {i \in 1..Len(text) : text[i] \notin {" ", "\n"}}
    IN  IF inner = {} THEN <<>>
        ELSE SubSeq(text,
                    CHOOSE i \in inner : \A j \in inner : i <= j,
                    CHOOSE i \in inner : \A j \in inner : j <= i)

Lowered(text) == [i \in 1..Len(text) |-> IF text[i] = "Q" THEN "q" ELSE text[i]]

\* file a-h, rank 1-8, file a-h, rank 1-8, optional promotion letter
WellFormedUci(text) ==
    LET files == {"a", "b", "c", "d", "e", "f", "g", "h"}
        ranks == {"1", "2", "3", "4", "5", "6", "7", "8"}
    IN  /\ Len(text) \in {4, 5}
        /\ text[1] \in files /\ text[2] \in ranks
        /\ text[3] \in files /\ text[4] \in ranks
        /\ Len(text) = 5 => text[5] \in {"q", "r", "b", "n"}

\* C23: a submitted move text reaches the ledger only if, trimmed and
\* lower-cased, it is file, rank, file, rank and an optional promotion
\* letter among q, r, b, n; the text stored is that lower-cased form; any
\* other text is rejected before any ledger write.
C23_OnlyWellFormedUciIsStored ==
    [][ /\ \A p \in Procs :
             pc[p] = "validate" /\ pc'[p] # "validate"
             => LET text == Lowered(Trimmed(req[p].move_uci))
                IN  IF WellFormedUci(text)
                    THEN /\ resp'[p].kind = "Ok"
                         /\ \E v \in vw'[p] : vw'[p] = {v} /\ v.move_uci = text
                    ELSE /\ resp'[p].kind = "Invalid"
                         /\ pc'[p] = "rollback"
                         /\ vw'[p] = {}
                         /\ UNCHANGED dbVars
        /\ \A v \in moves' : WellFormedUci(v.move_uci) ]_vars

\* C23 witness: the payload "h8h8Q" is about to be committed as "h8h8q".
C23_Witness ==
    \E p \in Procs :
        /\ pc[p] = "commit"
        /\ req[p].move_uci = <<"h", "8", "h", "8", "Q">>
        /\ \E v \in vw[p] : v.move_uci = <<"h", "8", "h", "8", "q">>

\* C24: pairing is all-or-nothing. In every committed state each match has
\* its game record and status active, exactly two tickets reference it, both
\* matched and held by its white and its black player, none of its players
\* has a ticket still queued, and every game that pairing created has its
\* match.
C24_PairingAllOrNothing ==
    /\ \A m \in matches :
          LET refs == {t \in tickets : t.match_id = m.id}
          IN  /\ m.game_id \in games
              /\ m.status = "active"
              /\ Cardinality(refs) = 2
              /\ \A t \in refs : t.status = "matched"
              /\ {t.player_id : t \in refs}
                    = {m.white_player_id, m.black_player_id}
              /\ ~ \E t \in tickets :
                     /\ t.player_id \in {m.white_player_id, m.black_player_id}
                     /\ t.status = "queued"
    /\ \A g \in games : \E m \in matches : m.game_id = g
    /\ \A t \in tickets :
          t.match_id # 0 => \E m \in matches : m.id = t.match_id

\* C24 witness: a committed match with its game and its two matched tickets,
\* beside a queued ticket of a third player that pairing left alone.
C24_Witness ==
    \E m \in matches :
        /\ m.game_id \in games
        /\ Cardinality({t \in tickets :
                          t.match_id = m.id /\ t.status = "matched"}) = 2
        /\ \E t \in tickets : t.status = "queued" /\ t.match_id = 0

\* The tickets a pairing by p may take: committed, queued, without match_id,
\* expires_at not passed, of another player, not locked by another
\* transaction
EligiblePartners(p) ==
    {t \in tickets :
        /\ t.status = "queued"
        /\ t.match_id = 0
        /\ t.expires_at >= now
        /\ t.player_id # row[p].player_id
        /\ \A q \in Procs \ {p} : t.id \notin lockT[q]}

\* C25: when try_pair pairs a queued ticket, the partner is the ticket with
\* the earliest created_at among the queued tickets without match_id, with
\* expires_at not passed, of another player and not row-locked by a
\* concurrent transaction; when there is none, try_pair returns the ticket
\* unchanged and creates no match.
C25_PartnerIsEarliestEligible ==
    [][ \A p \in Procs :
          (pc[p] = "pair" /\ pc'[p] # "pair" /\ row[p].status = "queued")
          => IF EligiblePartners(p) = {}
             THEN /\ resp'[p].kind = "Ok"
                  /\ resp'[p].ticket = row[p]
                  /\ tw'[p] = tw[p] /\ mw'[p] = mw[p] /\ gw'[p] = gw[p]
             ELSE \E partner \in EligiblePartners(p) :
                    /\ \A u \in EligiblePartners(p) :
                          partner.created_at <= u.created_at
                    /\ \E m \in mw'[p] :
                          /\ m \notin mw[p]
                          /\ {m.white_player_id, m.black_player_id}
                                = {row[p].player_id, partner.player_id}
                          /\ \E u \in tw'[p] :
                                /\ u.id = partner.id
                                /\ u.status = "matched"
                                /\ u.match_id = m.id
                          /\ resp'[p].ticket.id = row[p].id
                          /\ resp'[p].ticket.status = "matched"
                          /\ resp'[p].ticket.match_id = m.id ]_vars

\* C25 witness: a third player is paired while two other players are queued
\* with different created_at; the partner is the older of the two.
C25_Witness ==
    \E p \in Procs : \E m \in mw[p] : \E t, u \in tickets :
        /\ pc[p] = "commit"
        /\ t.status = "queued" /\ u.status = "queued"
        /\ t.player_id # u.player_id
        /\ t.created_at < u.created_at
        /\ u.expires_at >= now
        /\ row[p].player_id \notin {t.player_id, u.player_id}
        /\ row[p].status = "matched"
        /\ t.player_id \in {m.white_player_id, m.black_player_id}

\* C26: no interleaving of concurrent enqueue, heartbeat, get-ticket, cancel
\* and submit-move transactions reaches a deadlock: there are never two
\* transactions each waiting for a row lock the other holds, the locks of
\* the expiry sweep, of the own-ticket SELECT and of the candidate scan
\* included.
C26_NoDeadlock ==
    ~ \E p, q \in Procs : WaitsFor(p, q) /\ WaitsFor(q, p)

\* C27: submit_move transactions on the same match are serialized by the
\* exclusive lock on the match row. No two transactions hold the lock of one
\* match, so no two submissions are between their checks and their commit at
\* the same time; a participant's submission for a ply that an earlier
\* submission has recorded is rejected with Conflict carrying the state that
\* submission left; and the ledger holds one move per game and ply, a commit
\* of submit_move adding exactly one.
C27_SubmissionsSerialized ==
    [][ /\ \A p, q \in Procs :
             p # q => lockM'[p] \cap lockM'[q] = {}
        /\ \A p \in Procs :
             LET match_row == CommittedMatch(req'[p].match_id)
             IN  ( /\ pc[p] = "idle"
                   /\ req'[p].op = "submit_move"
                   /\ ParticipantColor(match_row, req'[p].player_id) # "none"
                   /\ \E v \in moves :
                         /\ v.game_id = match_row.game_id
                         /\ v.ply = req'[p].ply
                         /\ v.player_id # 0 )
                 => /\ resp'[p].kind = "Conflict"
                    /\ CarriesCurrentState(resp'[p], match_row)
                    /\ resp'[p].state.latest_ply >= req'[p].ply
                    /\ vw'[p] = {}
        /\ \A p \in Procs :
             (pc[p] = "commit" /\ req[p].op = "submit_move" /\ pc'[p] = "idle")
             => /\ Cardinality(moves') = Cardinality(moves) + 1
                /\ \A v \in moves : v \in moves'
        /\ \A v, w \in moves' :
             (v.game_id = w.game_id /\ v.ply = w.ply) => v = w ]_vars

\* C27 witness: black submits ply 2 again after black's move at ply 2 has
\* been committed, and is answered Conflict with latest_ply 2.
C27_Witness ==
    \E p \in Procs : \E v \in moves :
        /\ req[p].op = "submit_move"
        /\ req[p].ply = 2
        /\ req[p].player_id = v.player_id
        /\ v.ply = 2
        /\ v.game_id = CommittedMatch(req[p].match_id).game_id
        /\ resp[p].kind = "Conflict"
        /\ resp[p].state.latest_ply = 2

\* C28: every move recorded through submit_move (a row with a player_id),
\* pending or committed, belongs to the game of a match and has the match's
\* white player at an odd ply and its black player at an even ply.
C28_PlyParityMatchesColor ==
    \A v \in moves \cup UNION {vw[p] : p \in Procs} :
        v.player_id # 0
        => \E m \in matches :
              /\ m.game_id = v.game_id
              /\ v.ply % 2 = 1 => v.player_id = m.white_player_id
              /\ v.ply % 2 = 0 => v.player_id = m.black_player_id

\* C28 witness: the ledger holds white's move at ply 1 and black's move at
\* ply 2, and white's move for ply 3 is pending.
C28_Witness ==
    \E m \in matches : \E v, w \in moves : \E p \in Procs : \E x \in vw[p] :
        /\ v.game_id = m.game_id /\ w.game_id = m.game_id
        /\ v.ply = 1 /\ v.player_id = m.white_player_id
        /\ w.ply = 2 /\ w.player_id = m.black_player_id
        /\ x.game_id = m.game_id
        /\ x.ply = 3 /\ x.player_id = m.white_player_id

RejectedOutcomes == {"NotFound", "Forbidden", "Conflict"}

\* C29: an operation that ends in NotFound, Forbidden or Conflict commits
\* nothing. The step that ends such an operation leaves tickets, matches,
\* games and moves as they were, whatever the operation had written in its
\* transaction (the rows its expiry sweep had set to expired included), and
\* the stored state changes only in the step that ends an operation whose
\* answer is none of the three.
C29_RejectedCallCommitsNothing ==
    [][ /\ \A p \in Procs :
             (resp[p].kind \in RejectedOutcomes /\ pc'[p] # pc[p])
             => /\ pc'[p] = "idle"
                /\ UNCHANGED dbVars
        /\ dbVars' # dbVars
             => \E p \in Procs :
                   /\ pc[p] = "commit" /\ pc'[p] = "idle"
                   /\ resp[p].kind \notin RejectedOutcomes ]_vars

\* C29 witness: a heartbeat or a get of a ticket that is not found is about
\* to end after its sweep has set a stale queued ticket to expired in its
\* transaction; the committed row is still queued.
C29_Witness ==
    \E p \in Procs : \E u \in tw[p] : \E t \in tickets :
        /\ pc[p] = "rollback"
        /\ req[p].op \in {"heartbeat", "get_ticket"}
        /\ resp[p].kind = "NotFound"
        /\ u.status = "expired"
        /\ t.id = u.id
        /\ t.status = "queued"

\* the queued tickets of rows whose expires_at has not passed
UnexpiredQueued(rows) ==
    {t \in rows : t.status = "queued" /\ t.expires_at >= now}

\* C30: when an enqueue or a heartbeat on a queued ticket runs with no other
\* transaction in flight and another player holds a queued ticket whose
\* expires_at has not passed, the call returns its ticket as matched; and
\* when the unexpired queued tickets other than the caller's belong to at
\* most one player, as they do after operations executed one at a time, the
\* call leaves at most one unexpired queued ticket behind.
C30_SequentialCallPairs ==
    [][ \A p \in Procs :
          ( /\ pc[p] = "pair" /\ pc'[p] # "pair"
            /\ \A q \in Procs \ {p} : pc[q] = "idle"
            /\ row[p].status = "queued" )
          => LET others == {t \in UnexpiredQueued(tickets) :
                              t.player_id # row[p].player_id}
             IN  /\ others # {}
                    => /\ resp'[p].kind = "Ok"
                       /\ resp'[p].ticket.id = row[p].id
                       /\ resp'[p].ticket.status = "matched"
                       /\ resp'[p].assigned_color \in {"white", "black"}
                 /\ Cardinality(others) <= 1
                    => Cardinality(UnexpiredQueued(ViewTickets(p)')) <= 1 ]_vars

\* C30 witness: a heartbeat on a queued ticket, alone in flight at the
\* instant another player's queued ticket reaches its expires_at, is about
\* to return its ticket matched.
C30_Witness ==
    \E p \in Procs : \E t, u \in tickets :
        /\ pc[p] = "commit"
        /\ \A q \in Procs \ {p} : pc[q] = "idle"
        /\ req[p].op = "heartbeat"
        /\ t.id = req[p].ticket_id
        /\ t.status = "queued"
        /\ u.status = "queued"
        /\ u.player_id # t.player_id
        /\ u.expires_at = now
        /\ resp[p].ticket.status = "matched"

\* The two waiting tickets are matched, with each other
MatchedTogether ==
    \E m \in matches :
       \A id \in {1, 2} :
          \E t \in tickets :
             t.id = id /\ t.status = "matched" /\ t.match_id = m.id

DeadStatuses == {"cancelled", "expired"}

\* C32: a ticket that is cancelled or expired never becomes queued or
\* matched again, in the committed rows and in the writes a transaction has
\* pending; a row that is new is queued and has an id no ticket has had, and
\* an enqueue answers with an active ticket that is none of the cancelled or
\* expired ones, the caller's own included.
C32_NoRevival ==
    [][ /\ \A t \in tickets : \A u \in tickets' :
             (u.id = t.id /\ t.status \in DeadStatuses)
             => u.status \in DeadStatuses
        /\ \A p \in Procs : \A u \in tw'[p] :
             LET prev == SeenTicket(p, u.id)
             IN  /\ (prev.id # 0 /\ prev.status \in DeadStatuses)
                       => u.status \in DeadStatuses
                 /\ prev.id = 0
                       => (u.status = "queued" /\ u.id \notin UsedTicketIds)
        /\ \A p \in Procs :
             ( /\ pc'[p] = "commit"
               /\ req'[p].op = "enqueue"
               /\ resp'[p].kind = "Ok" )
             => /\ resp'[p].ticket.status \in ACTIVE_TICKET_STATUSES
                /\ \A t \in tickets' \cup tw'[p] :
                      t.status \in DeadStatuses
                      => t.id # resp'[p].ticket.id ]_vars

\* C32 witness: a player whose committed ticket is cancelled or expired has
\* enqueued again, and the call answers with a queued ticket of another id.
C32_Witness ==
    \E p \in Procs : \E t \in tickets :
        /\ t.status \in DeadStatuses
        /\ t.player_id = req[p].player_id
        /\ pc[p] = "commit"
        /\ req[p].op = "enqueue"
        /\ resp[p].kind = "Ok"
        /\ resp[p].ticket.id # t.id
        /\ resp[p].ticket.status = "queued"
        /\ resp[p].ticket.player_id = t.player_id

\* The matches, committed or pending, in which a player is white or black
MatchesOf(player_id) ==
    {m \in AllMatches :
        player_id \in {m.white_player_id, m.black_player_id}}

\* C33: once a player's ticket is matched the player obtains no other ticket
\* and no other match: the ticket stays matched with its match_id, no ticket
\* of the player is added, an enqueue of the player answers with that ticket
\* and that match_id, and every player is white or black in at most one
\* match, committed or pending.
C33_MatchedPlayerKeepsOneMatch ==
    [][ /\ \A t \in tickets :
             t.status = "matched"
             => /\ \E u \in tickets' :
                      /\ u.id = t.id
                      /\ u.status = "matched"
                      /\ u.match_id = t.match_id
                /\ \A u \in tickets' :
                      u.player_id = t.player_id => u.id \in TicketIds(tickets)
                /\ \A p \in Procs :
                      ( /\ pc'[p] = "commit"
                        /\ req'[p].op = "enqueue"
                        /\ req'[p].player_id = t.player_id )
                      => /\ resp'[p].kind = "Ok"
                         /\ resp'[p].ticket.id = t.id
                         /\ resp'[p].ticket.status = "matched"
                         /\ resp'[p].ticket.match_id = t.match_id
        /\ \A player_id \in Players :
             Cardinality(MatchesOf(player_id)') <= 1 ]_vars

\* C33 witness: a player in a committed match has enqueued again while a
\* queued ticket of a third player was there to pair with, and the call
\* answers with the matched ticket.
C33_Witness ==
    \E p \in Procs : \E t \in tickets : \E other \in tickets :
        /\ t.status = "matched"
        /\ MatchesOf(t.player_id) # {}
        /\ other.status = "queued"
        /\ other.player_id # t.player_id
        /\ other.expires_at >= txNow[p]
        /\ ~ TicketLockedByOther(p, other.id)
        /\ pc[p] = "commit"
        /\ req[p].op = "enqueue"
        /\ req[p].player_id = t.player_id
        /\ resp[p].ticket.id = t.id

====
